---- MODULE Spec2Model ----
(***************************************************************************)
(* The deployment configuration loader of the tile server CDK application  *)
(* (bin/deployment/load-deployment.ts): loadDeploymentConfig, its field    *)
(* validators and the typed configuration objects it constructs; the CDK   *)
(* application that constructs its stacks from the loaded deployment       *)
(* (bin/app.ts); RegionalConfig; and the suppressions report of the test   *)
(* run (test/test-utils.ts).                                               *)
(*                                                                         *)
(* A string is a sequence of one-character strings, so that trim() and the *)
(* identifier patterns are computed character by character.  A JSON value  *)
(* is a record tagged by t; an object holds a function from its own keys   *)
(* to values, an array holds a sequence.                                   *)
(***************************************************************************)
EXTENDS Integers, Sequences, FiniteSets, TLC

VARIABLES file, pc, parsed, local, result, thrown, failedAt, log, io, evaluated, prev, calls,
          arg, app, nag

vars == <<file, pc, parsed, local, result, thrown, failedAt, log, io, evaluated, prev, calls,
          arg, app, nag>>

None == [t |-> "none"]

----------------------------------------------------------------------------
(* JSON / JavaScript values *)

Undefined == [t |-> "undefined"]

Null == [t |-> "null"]

Bool(b) == [t |-> "boolean", v |-> b]

Num(n) == [t |-> "number", v |-> n]

Str(s) == [t |-> "string", v |-> s]

Arr(a) == [t |-> "array", v |-> a]

Obj(f) == [t |-> "object", v |-> f]

EmptyProps == [k \in {} |-> Undefined]

\* the number that is not a number
NaN == [t |-> "number", nan |-> TRUE]

IsNaN(value) == value.t = "number" /\ "nan" \in DOMAIN value

\* a < b on two numbers: false when either is NaN
Less(a, b) == ~IsNaN(a) /\ ~IsNaN(b) /\ a.v < b.v

\* typeof value
TypeOf(value) ==
  CASE value.t = "undefined" -> "undefined"
    [] value.t = "boolean" -> "boolean"
    [] value.t = "number" -> "number"
    [] value.t = "string" -> "string"
    [] OTHER -> "object"

\* ToBoolean(value), as used by !value and value && ...
Truthy(value) ==
  CASE value.t = "undefined" -> FALSE
    [] value.t = "null" -> FALSE
    [] value.t = "boolean" -> value.v
    [] value.t = "number" -> ~IsNaN(value) /\ value.v # 0
    [] value.t = "string" -> Len(value.v) > 0
    [] OTHER -> TRUE

\* Array.isArray(value)
IsArray(value) == value.t = "array"

\* value.key on a value whose typeof is "object"
Get(value, key) ==
  IF value.t = "object" /\ key \in DOMAIN value.v THEN value.v[key] ELSE Undefined

\* the own enumerable properties copied by { ...value }
OwnProps(value) ==
  CASE value.t = "object" -> value.v
    [] value.t = "array" ->
         LET idx == [i \in 1..Len(value.v) |-> ToString(i - 1)]
         IN  [k \in {idx[i] : i \in 1..Len(value.v)} |->
                value.v[CHOOSE i \in 1..Len(value.v) : idx[i] = k]]
    [] OTHER -> EmptyProps

\* a merge in which the keys of defaults win
MutMergeFirstWins(defaults, config) ==
  [k \in DOMAIN defaults \cup DOMAIN config |->
     IF k \in DOMAIN defaults THEN defaults[k] ELSE config[k]]

\* { ...defaults, ...config }: the keys of config win
Merge(defaults, config) ==
  [k \in DOMAIN defaults \cup DOMAIN config |->
     IF k \in DOMAIN config THEN config[k] ELSE defaults[k]]

----------------------------------------------------------------------------
(* Strings *)

WhiteSpace == {" ", "\t", "\n", "\r", "\f"}

Digit == {"0", "1", "2", "3", "4", "5", "6", "7", "8", "9"}

HexChar == Digit \cup {"a", "b", "c", "d", "e", "f"}

LowerAlnum == Digit \cup {"a", "b", "c", "d", "e", "f", "g", "h", "i", "j", "k", "l", "m",
                          "n", "o", "p", "q", "r", "s", "t", "u", "v", "w", "x", "y", "z"}

RECURSIVE TrimStart(_)
TrimStart(s) ==
  IF Len(s) > 0 /\ s[1] \in WhiteSpace THEN TrimStart(Tail(s)) ELSE s

RECURSIVE TrimEnd(_)
TrimEnd(s) ==
  IF Len(s) > 0 /\ s[Len(s)] \in WhiteSpace THEN TrimEnd(SubSeq(s, 1, Len(s) - 1)) ELSE s

\* String.prototype.trim
Trim(s) == TrimEnd(TrimStart(s))

\* a string literal of the source that is never inspected character by character
Lit(text) == <<text>>

----------------------------------------------------------------------------
(* Errors *)

NoField == "undefined"

\* new DeploymentConfigError(message, field); the message is its template,
\* with the interpolated field name, value and typeof kept apart
DeploymentConfigError(template, fieldName, value, got, field) ==
  [name |-> "DeploymentConfigError", template |-> template, fieldName |-> fieldName,
   value |-> value, got |-> got, field |-> field]

Throw(error) == [ok |-> FALSE, error |-> error]

Return(value) == [ok |-> TRUE, value |-> value]

----------------------------------------------------------------------------
(* Field validators *)

validateStringField(value, fieldName, isRequired) ==
  IF value.t \in {"undefined", "null"}
  THEN IF isRequired
       THEN Throw(DeploymentConfigError("Missing required field: ${fieldName}",
                                        fieldName, <<>>, "", fieldName))
       ELSE Return(<<>>)
  ELSE IF TypeOf(value) # "string"
  THEN Throw(DeploymentConfigError("Field '${fieldName}' must be a string, got ${typeof value}",
                                   fieldName, <<>>, TypeOf(value), fieldName))
  ELSE LET trimmed == Trim(value.v)
       IN  IF isRequired /\ trimmed = <<>>
           THEN Throw(DeploymentConfigError(
                        "Field '${fieldName}' cannot be empty or contain only whitespace",
                        fieldName, <<>>, "", fieldName))
           ELSE Return(trimmed)

\* a boolean validator that coerces a present value by truthiness
MutBooleanCoerced(value, fieldName, isRequired, defaultValue) ==
  IF value.t \in {"undefined", "null"}
  THEN IF isRequired
       THEN Throw(DeploymentConfigError("Missing required field: ${fieldName}",
                                        fieldName, <<>>, "", fieldName))
       ELSE Return(defaultValue)
  ELSE Return(Truthy(value))

\* defaultValue stands for (defaultValue ?? false): a call that passes no
\* default passes FALSE
validateBooleanField(value, fieldName, isRequired, defaultValue) ==
  IF value.t \in {"undefined", "null"}
  THEN IF isRequired
       THEN Throw(DeploymentConfigError("Missing required field: ${fieldName}",
                                        fieldName, <<>>, "", fieldName))
       ELSE Return(defaultValue)
  ELSE IF TypeOf(value) # "boolean"
  THEN Throw(DeploymentConfigError("Field '${fieldName}' must be a boolean, got ${typeof value}",
                                   fieldName, <<>>, TypeOf(value), fieldName))
  ELSE Return(value.v)

AllIn(s, chars) == \A i \in 1..Len(s) : s[i] \in chars

\* the pattern without its end anchor: /^\d{12}/
MutAccountIdPatternUnanchored(s) == Len(s) >= 12 /\ AllIn(SubSeq(s, 1, 12), Digit)

\* /^\d{12}$/
AccountIdPattern(s) == Len(s) = 12 /\ AllIn(s, Digit)

validateAccountId(accountId) ==
  IF ~AccountIdPattern(accountId)
  THEN Throw(DeploymentConfigError(
               "Invalid AWS account ID format: '${accountId}'. Must be exactly 12 digits.",
               "", accountId, "", "account.id"))
  ELSE Return(accountId)

\* the pattern with segments that may be empty: /^[a-z0-9]*-[a-z0-9]*(?:-[a-z0-9]*)*$/
MutRegionPatternEmptySegments(s) ==
  /\ AllIn(s, LowerAlnum \cup {"-"})
  /\ \E i \in 1..Len(s) : s[i] = "-"

\* /^[a-z0-9]+-[a-z0-9]+(?:-[a-z0-9]+)*$/
RegionPattern(s) ==
  /\ Len(s) > 0
  /\ AllIn(s, LowerAlnum \cup {"-"})
  /\ s[1] # "-"
  /\ s[Len(s)] # "-"
  /\ \E i \in 1..Len(s) : s[i] = "-"
  /\ \A i \in 1..(Len(s) - 1) : ~(s[i] = "-" /\ s[i + 1] = "-")

validateRegion(region) ==
  IF ~RegionPattern(region)
  THEN Throw(DeploymentConfigError(
               "Invalid AWS region format: '${region}'. Must follow pattern like 'us-east-1', 'eu-west-2', etc.",
               "", region, "", "account.region"))
  ELSE Return(region)

\* the pattern with a suffix of 8 to 17 characters: /^<prefix>[a-f0-9]{8,17}$/
MutHexIdPatternRange(prefix, s) ==
  /\ Len(s) \in (Len(prefix) + 8)..(Len(prefix) + 17)
  /\ SubSeq(s, 1, Len(prefix)) = prefix
  /\ AllIn(SubSeq(s, Len(prefix) + 1, Len(s)), HexChar)

\* /^<prefix>[a-f0-9]{8}(?:[a-f0-9]{9})?$/
HexIdPattern(prefix, s) ==
  /\ Len(s) \in {Len(prefix) + 8, Len(prefix) + 17}
  /\ SubSeq(s, 1, Len(prefix)) = prefix
  /\ AllIn(SubSeq(s, Len(prefix) + 1, Len(s)), HexChar)

VpcPrefix == <<"v", "p", "c", "-">>

SgPrefix == <<"s", "g", "-">>

SubnetPrefix == <<"s", "u", "b", "n", "e", "t", "-">>

validateVpcId(vpcId) ==
  IF ~HexIdPattern(VpcPrefix, vpcId)
  THEN Throw(DeploymentConfigError(
               "Invalid VPC ID format: '${vpcId}'. Must start with 'vpc-' followed by 8 or 17 hexadecimal characters.",
               "", vpcId, "", "config.targetVpcId"))
  ELSE Return(vpcId)

validateSecurityGroupId(securityGroupId) ==
  IF ~HexIdPattern(SgPrefix, securityGroupId)
  THEN Throw(DeploymentConfigError(
               "Invalid security group ID format: '${securityGroupId}'. Must start with 'sg-' followed by 8 or 17 hexadecimal characters.",
               "", securityGroupId, "", "vpcConfig.securityGroupId"))
  ELSE Return(securityGroupId)

validateSubnetId(subnetId) ==
  IF ~HexIdPattern(SubnetPrefix, subnetId)
  THEN Throw(DeploymentConfigError(
               "Invalid Subnet ID format: '${subnetId}'. Must start with 'subnet-' followed by 8 or 17 hexadecimal characters.",
               "", subnetId, "", "networkConfig.targetSubnets"))
  ELSE Return(subnetId)

\* validateAccountId(validateStringField(value, "account.id")): the inner call throws first
AccountIdField(value) ==
  LET str == validateStringField(value, "account.id", TRUE)
  IN  IF str.ok THEN validateAccountId(str.value) ELSE str

RegionField(value) ==
  LET str == validateStringField(value, "account.region", TRUE)
  IN  IF str.ok THEN validateRegion(str.value) ELSE str

VpcIdField(value) ==
  LET str == validateStringField(value, "networkConfig.VPC_ID", TRUE)
  IN  IF str.ok THEN validateVpcId(str.value) ELSE str

SubnetIdField(value) ==
  LET str == validateStringField(value, "networkConfig.TARGET_SUBNETS[]", TRUE)
  IN  IF str.ok THEN validateSubnetId(str.value) ELSE str

SecurityGroupIdField(value) ==
  LET str == validateStringField(value, "networkConfig.SECURITY_GROUP_ID", TRUE)
  IN  IF str.ok THEN validateSecurityGroupId(str.value) ELSE str

----------------------------------------------------------------------------
(* Typed configuration objects *)

\* BaseConfig: Object.assign(this, config)
BaseConfig(class, config) == [t |-> "object", class |-> class, v |-> config]

NetworkConfigDefaults ==
  [VPC_NAME |-> Str(Lit("tile-server-vpc")),
   SECURITY_GROUP_NAME |-> Str(Lit("tile-server-security-group"))]

\* the defaults spread after the argument, so that they win over its keys
MutNetworkConfigDefaultsLast(config) ==
  BaseConfig("NetworkConfig", Merge(OwnProps(config), NetworkConfigDefaults))

NetworkConfig(config) ==
  BaseConfig("NetworkConfig", Merge(NetworkConfigDefaults, OwnProps(config)))

TestImageryConfigDefaults ==
  [S3_IMAGE_BUCKET_PREFIX |-> Str(Lit("ts-test-imagery")),
   S3_TEST_IMAGES_PATH |-> Str(Lit("../test/data/integ/"))]

TestImageryConfig(config) ==
  BaseConfig("TestImageryConfig", Merge(TestImageryConfigDefaults, OwnProps(config)))

TestConfigDefaults ==
  [BUILD_FROM_SOURCE |-> Bool(FALSE),
   TEST_CONTAINER_BUILD_PATH |-> Str(Lit("../")),
   TEST_CONTAINER_BUILD_TARGET |-> Str(Lit("integ")),
   TEST_CONTAINER_DOCKERFILE |-> Str(Lit("docker/Dockerfile.integ")),
   TEST_CONTAINER_URI |-> Str(Lit("awsosml/osml-tile-server-test:latest"))]

TestConfig(config) ==
  BaseConfig("TestConfig", Merge(TestConfigDefaults, OwnProps(config)))

DataplaneConfigDefaults ==
  [BUILD_FROM_SOURCE |-> Bool(FALSE),
   CONTAINER_BUILD_PATH |-> Str(Lit("../")),
   CONTAINER_BUILD_TARGET |-> Str(Lit("tile_server")),
   CONTAINER_DOCKERFILE |-> Str(Lit("docker/Dockerfile.tile_server")),
   CONTAINER_URI |-> Str(Lit("awsosml/osml-tile-server:latest")),
   CW_LOGGROUP_NAME |-> Str(Lit("TSService")),
   CW_METRICS_NAMESPACE |-> Str(Lit("OSML")),
   DDB_JOB_TABLE |-> Str(Lit("TSJobTable")),
   DDB_TTL_ATTRIBUTE |-> Str(Lit("expire_time")),
   EFS_MOUNT_NAME |-> Str(Lit("ts-efs-volume")),
   ECS_CONTAINER_CPU |-> Num(8192),
   ECS_CONTAINER_MEMORY |-> Num(16384),
   ECS_CONTAINER_NAME |-> Str(Lit("TSContainer")),
   ECS_CONTAINER_PORT |-> Num(8080),
   ECS_CLUSTER_NAME |-> Str(Lit("TSCluster")),
   ECS_TASK_CPU |-> Num(8192),
   ECS_TASK_MEMORY |-> Num(16384),
   SQS_JOB_QUEUE |-> Str(Lit("TSJobQueue"))]

\* the message of the thrown Error, line by line
ValidationFailed(errors) ==
  Throw([name |-> "Error", message |-> <<"Configuration validation failed:">> \o errors])

\* a validator that throws at the first bound it finds violated
MutValidateConfigFailFast(config) ==
  LET ecsTaskCpu ==
        IF TypeOf(config["ECS_TASK_CPU"]) = "number" THEN config["ECS_TASK_CPU"] ELSE Num(0)
      ecsTaskMemory ==
        IF TypeOf(config["ECS_TASK_MEMORY"]) = "number" THEN config["ECS_TASK_MEMORY"] ELSE Num(0)
  IN  IF Less(ecsTaskCpu, Num(256))
      THEN ValidationFailed(<<"ECS_TASK_CPU must be at least 256 (0.25 vCPU)">>)
      ELSE IF Less(Num(16384), ecsTaskCpu)
      THEN ValidationFailed(<<"ECS_TASK_CPU must be at most 16384 (16 vCPU)">>)
      ELSE IF Less(ecsTaskMemory, Num(512))
      THEN ValidationFailed(<<"ECS_TASK_MEMORY must be at least 512 MiB">>)
      ELSE IF Less(Num(122880), ecsTaskMemory)
      THEN ValidationFailed(<<"ECS_TASK_MEMORY must be at most 122880 MiB (120 GB)">>)
      ELSE Return(Undefined)

\* a validateConfig that checks the bounds of numbers only and lets any other
\* value pass
MutValidateConfigNumbersOnly(config) ==
  LET cpu == config["ECS_TASK_CPU"]
      memory == config["ECS_TASK_MEMORY"]
      errors ==
        (IF TypeOf(cpu) = "number" /\ Less(cpu, Num(256))
         THEN <<"ECS_TASK_CPU must be at least 256 (0.25 vCPU)">> ELSE <<>>)
        \o (IF TypeOf(cpu) = "number" /\ Less(Num(16384), cpu)
            THEN <<"ECS_TASK_CPU must be at most 16384 (16 vCPU)">> ELSE <<>>)
        \o (IF TypeOf(memory) = "number" /\ Less(memory, Num(512))
            THEN <<"ECS_TASK_MEMORY must be at least 512 MiB">> ELSE <<>>)
        \o (IF TypeOf(memory) = "number" /\ Less(Num(122880), memory)
            THEN <<"ECS_TASK_MEMORY must be at most 122880 MiB (120 GB)">> ELSE <<>>)
  IN  IF Len(errors) > 0 THEN ValidationFailed(errors) ELSE Return(Undefined)

\* DataplaneConfig.validateConfig: errors collects a line per violated bound
validateConfig(config) ==
  LET ecsTaskCpu ==
        IF TypeOf(config["ECS_TASK_CPU"]) = "number" THEN config["ECS_TASK_CPU"] ELSE Num(0)
      ecsTaskMemory ==
        IF TypeOf(config["ECS_TASK_MEMORY"]) = "number" THEN config["ECS_TASK_MEMORY"] ELSE Num(0)
      errors ==
        (IF Less(ecsTaskCpu, Num(256))
         THEN <<"ECS_TASK_CPU must be at least 256 (0.25 vCPU)">> ELSE <<>>)
        \o (IF Less(Num(16384), ecsTaskCpu)
            THEN <<"ECS_TASK_CPU must be at most 16384 (16 vCPU)">> ELSE <<>>)
        \o (IF Less(ecsTaskMemory, Num(512))
            THEN <<"ECS_TASK_MEMORY must be at least 512 MiB">> ELSE <<>>)
        \o (IF Less(Num(122880), ecsTaskMemory)
            THEN <<"ECS_TASK_MEMORY must be at most 122880 MiB (120 GB)">> ELSE <<>>)
  IN  IF Len(errors) > 0 THEN ValidationFailed(errors) ELSE Return(Undefined)

\* new DataplaneConfig(config): merge, super(mergedConfig), validateConfig
DataplaneConfig(config) ==
  LET mergedConfig == Merge(DataplaneConfigDefaults, OwnProps(config))
      validated == validateConfig(mergedConfig)
  IN  IF validated.ok THEN Return(BaseConfig("DataplaneConfig", mergedConfig)) ELSE validated

----------------------------------------------------------------------------
(* The file system and JSON.parse *)

\* existsSync(deploymentPath)
existsSync(f) == f.exists

\* readFileSync(deploymentPath, "utf-8")
readFileSync(f) ==
  IF ~f.exists
  THEN Throw([name |-> "Error", message |-> "ENOENT: no such file or directory"])
  ELSE IF ~f.readable
  THEN Throw([name |-> "Error", message |-> f.ioMessage])
  ELSE Return(f.text)

\* JSON.parse(rawContent)
JSONparse(rawContent) ==
  IF rawContent.wellFormed
  THEN Return(rawContent.value)
  ELSE Throw([name |-> "SyntaxError", message |-> rawContent.parserMessage])

\* a catch block that reports every failure as a JSON syntax failure
MutReadParseCatchAlwaysSyntax(error) ==
  DeploymentConfigError("Invalid JSON format in deployment.json: ${error.message}",
                        "", Lit(error.message), "", NoField)

\* the catch block around readFileSync and JSON.parse
ReadParseCatch(error) ==
  IF error.name = "SyntaxError"
  THEN DeploymentConfigError("Invalid JSON format in deployment.json: ${error.message}",
                             "", Lit(error.message), "", NoField)
  ELSE DeploymentConfigError("Failed to read deployment.json: ${error.message}",
                             "", Lit(error.message), "", NoField)

----------------------------------------------------------------------------
(* loadDeploymentConfig, one action per statement group *)

InitLocal ==
  [rawContent |-> Undefined, config |-> Undefined, projectName |-> Undefined, accountConfig |-> Undefined,
   accountId |-> Undefined, region |-> Undefined, prodLike |-> Undefined,
   isAdc |-> Undefined, networkConfigData |-> Undefined, i |-> 0,
   networkConfig |-> Undefined, dataplaneConfig |-> Undefined,
   deployIntegrationTests |-> Undefined, testImageryConfig |-> Undefined,
   testConfig |-> Undefined]

\* the statement group at pc completes and control passes to next
Goto(next, newLocal) ==
  /\ pc' = next
  /\ local' = newLocal
  /\ evaluated' = Append(evaluated, pc)
  /\ UNCHANGED <<file, result, thrown, failedAt, log, prev, calls, arg, app, nag>>

\* the statement group at pc throws: the call ends with the error
Raise(error) ==
  /\ pc' = "failed"
  /\ thrown' = error
  /\ failedAt' = pc
  /\ evaluated' = Append(evaluated, pc)
  /\ UNCHANGED <<file, local, result, log, prev, calls, arg, app, nag>>

\* the read attempted without the existence check
MutExistsStepUnchecked ==
  /\ pc = "start"
  /\ io' = Append(io, "existsSync")
  /\ parsed' = parsed
  /\ Goto("read", local)

ExistsStep ==
  /\ pc = "start"
  /\ io' = Append(io, "existsSync")
  /\ parsed' = parsed
  /\ IF ~existsSync(file)
     THEN Raise(DeploymentConfigError(
                  "Missing deployment.json file at ${deploymentPath}. Please create it by copying deployment.json.example",
                  "", Lit(file.path), "", NoField))
     ELSE Goto("read", local)

ReadStep ==
  /\ pc = "read"
  /\ io' = Append(io, "readFileSync")
  /\ parsed' = parsed
  /\ LET r == readFileSync(file)
     IN  IF r.ok
         THEN Goto("parse", [local EXCEPT !.rawContent = r.value])
         ELSE Raise(ReadParseCatch(r.error))

ParseStep ==
  /\ pc = "parse"
  /\ io' = Append(io, "JSON.parse")
  /\ LET r == JSONparse(local.rawContent)
     IN  IF r.ok
         THEN parsed' = r.value /\ Goto("top", local)
         ELSE parsed' = parsed /\ Raise(ReadParseCatch(r.error))

\* the top-level check by typeof alone, which null passes
MutTopStepTypeofOnly ==
  /\ pc = "top"
  /\ UNCHANGED <<io, parsed>>
  /\ IF TypeOf(parsed) # "object"
     THEN Raise(DeploymentConfigError("deployment.json must contain a valid JSON object",
                                      "", <<>>, "", NoField))
     ELSE Goto("projectName", [local EXCEPT !.config = parsed])

TopStep ==
  /\ pc = "top"
  /\ UNCHANGED <<io, parsed>>
  /\ IF ~Truthy(parsed) \/ TypeOf(parsed) # "object"
     THEN Raise(DeploymentConfigError("deployment.json must contain a valid JSON object",
                                      "", <<>>, "", NoField))
     ELSE Goto("projectName", [local EXCEPT !.config = parsed])

ProjectNameStep ==
  /\ pc = "projectName"
  /\ UNCHANGED <<io, parsed>>
  /\ LET r == validateStringField(Get(local.config, "projectName"), "projectName", TRUE)
     IN  IF ~r.ok
         THEN Raise(r.error)
         ELSE IF Len(r.value) = 0
         THEN Raise(DeploymentConfigError("projectName cannot be empty", "", <<>>, "", NoField))
         ELSE Goto("account", [local EXCEPT !.projectName = r.value])

\* the account section check passing control to the region, skipping account.id
MutAccountStepRegionFirst ==
  /\ pc = "account"
  /\ UNCHANGED <<io, parsed>>
  /\ LET account == Get(local.config, "account")
     IN  IF ~Truthy(account) \/ TypeOf(account) # "object"
         THEN Raise(DeploymentConfigError("Missing or invalid account section in deployment.json",
                                          "", <<>>, "", "account"))
         ELSE Goto("region", [local EXCEPT !.accountConfig = account])

AccountStep ==
  /\ pc = "account"
  /\ UNCHANGED <<io, parsed>>
  /\ LET account == Get(local.config, "account")
     IN  IF ~Truthy(account) \/ TypeOf(account) # "object"
         THEN Raise(DeploymentConfigError("Missing or invalid account section in deployment.json",
                                          "", <<>>, "", "account"))
         ELSE Goto("accountId", [local EXCEPT !.accountConfig = account])

AccountIdStep ==
  /\ pc = "accountId"
  /\ UNCHANGED <<io, parsed>>
  /\ LET r == AccountIdField(Get(local.accountConfig, "id"))
     IN  IF ~r.ok THEN Raise(r.error)
         ELSE Goto("region", [local EXCEPT !.accountId = r.value])

RegionStep ==
  /\ pc = "region"
  /\ UNCHANGED <<io, parsed>>
  /\ LET r == RegionField(Get(local.accountConfig, "region"))
     IN  IF ~r.ok THEN Raise(r.error)
         ELSE Goto("prodLike", [local EXCEPT !.region = r.value])

ProdLikeStep ==
  /\ pc = "prodLike"
  /\ UNCHANGED <<io, parsed>>
  /\ LET r == validateBooleanField(Get(local.accountConfig, "prodLike"), "account.prodLike",
                                   TRUE, FALSE)
     IN  IF ~r.ok THEN Raise(r.error)
         ELSE Goto("isAdc", [local EXCEPT !.prodLike = r.value])

\* account.isAdc defaulting to true when it is left out
MutIsAdcStepDefaultTrue ==
  /\ pc = "isAdc"
  /\ UNCHANGED <<io, parsed>>
  /\ LET r == validateBooleanField(Get(local.accountConfig, "isAdc"), "account.isAdc",
                                   FALSE, TRUE)
     IN  IF ~r.ok THEN Raise(r.error)
         ELSE Goto("network", [local EXCEPT !.isAdc = r.value])

IsAdcStep ==
  /\ pc = "isAdc"
  /\ UNCHANGED <<io, parsed>>
  /\ LET r == validateBooleanField(Get(local.accountConfig, "isAdc"), "account.isAdc",
                                   FALSE, FALSE)
     IN  IF ~r.ok THEN Raise(r.error)
         ELSE Goto("network", [local EXCEPT !.isAdc = r.value])

NetworkStep ==
  /\ pc = "network"
  /\ UNCHANGED <<io, parsed>>
  /\ LET networkConfig == Get(local.config, "networkConfig")
     IN  IF Truthy(networkConfig) /\ TypeOf(networkConfig) = "object"
            /\ networkConfig.t # "null"
         THEN Goto("vpcId", [local EXCEPT !.networkConfigData = networkConfig])
         ELSE Goto("dataplane", local)

VpcIdStep ==
  /\ pc = "vpcId"
  /\ UNCHANGED <<io, parsed>>
  /\ LET VPC_ID == Get(local.networkConfigData, "VPC_ID")
         r == VpcIdField(VPC_ID)
     IN  IF VPC_ID.t # "undefined" /\ ~r.ok
         THEN Raise(r.error)
         ELSE Goto("subnets", local)

SubnetsStep ==
  /\ pc = "subnets"
  /\ UNCHANGED <<io, parsed>>
  /\ LET TARGET_SUBNETS == Get(local.networkConfigData, "TARGET_SUBNETS")
     IN  IF TARGET_SUBNETS.t # "undefined"
         THEN IF ~IsArray(TARGET_SUBNETS)
              THEN Raise(DeploymentConfigError(
                           "Field 'networkConfig.TARGET_SUBNETS' must be an array",
                           "", <<>>, "", "networkConfig.TARGET_SUBNETS"))
              ELSE Goto("subnetLoop", [local EXCEPT !.i = 1])
         ELSE Goto("sgId", local)

\* a loop that validates the first element only
MutSubnetLoopStepFirstOnly ==
  /\ pc = "subnetLoop"
  /\ UNCHANGED <<io, parsed>>
  /\ LET TARGET_SUBNETS == Get(local.networkConfigData, "TARGET_SUBNETS").v
     IN  IF local.i > Len(TARGET_SUBNETS) \/ local.i > 1
         THEN Goto("sgId", [local EXCEPT !.i = 0])
         ELSE LET r == SubnetIdField(TARGET_SUBNETS[local.i])
              IN  IF ~r.ok THEN Raise(r.error)
                  ELSE Goto("subnetLoop", [local EXCEPT !.i = local.i + 1])

\* one iteration of: for (const subnetId of networkConfigData.TARGET_SUBNETS)
SubnetLoopStep ==
  /\ pc = "subnetLoop"
  /\ UNCHANGED <<io, parsed>>
  /\ LET TARGET_SUBNETS == Get(local.networkConfigData, "TARGET_SUBNETS").v
     IN  IF local.i > Len(TARGET_SUBNETS)
         THEN Goto("sgId", [local EXCEPT !.i = 0])
         ELSE LET r == SubnetIdField(TARGET_SUBNETS[local.i])
              IN  IF ~r.ok THEN Raise(r.error)
                  ELSE Goto("subnetLoop", [local EXCEPT !.i = local.i + 1])

SgIdStep ==
  /\ pc = "sgId"
  /\ UNCHANGED <<io, parsed>>
  /\ LET SECURITY_GROUP_ID == Get(local.networkConfigData, "SECURITY_GROUP_ID")
         r == SecurityGroupIdField(SECURITY_GROUP_ID)
     IN  IF SECURITY_GROUP_ID.t # "undefined" /\ ~r.ok
         THEN Raise(r.error)
         ELSE Goto("cross", local)

\* the cross-field rule without the test for an empty list
MutSubnetsMissingNoLength(networkConfigData) ==
  LET VPC_ID == Get(networkConfigData, "VPC_ID")
      TARGET_SUBNETS == Get(networkConfigData, "TARGET_SUBNETS")
  IN  /\ Truthy(VPC_ID)
      /\ \/ ~Truthy(TARGET_SUBNETS)
         \/ ~IsArray(TARGET_SUBNETS)

\* the condition of the VPC_ID / TARGET_SUBNETS cross-field rule
SubnetsMissingForVpc(networkConfigData) ==
  LET VPC_ID == Get(networkConfigData, "VPC_ID")
      TARGET_SUBNETS == Get(networkConfigData, "TARGET_SUBNETS")
  IN  /\ Truthy(VPC_ID)
      /\ \/ ~Truthy(TARGET_SUBNETS)
         \/ ~IsArray(TARGET_SUBNETS)
         \/ Len(TARGET_SUBNETS.v) = 0

\* the cross-field rule left out
MutCrossStepSkipped ==
  /\ pc = "cross"
  /\ UNCHANGED <<io, parsed>>
  /\ Goto("construct", local)

CrossStep ==
  /\ pc = "cross"
  /\ UNCHANGED <<io, parsed>>
  /\ IF SubnetsMissingForVpc(local.networkConfigData)
     THEN Raise(DeploymentConfigError(
                  "When VPC_ID is provided, TARGET_SUBNETS must also be specified with at least one subnet ID",
                  "", <<>>, "", "networkConfig.TARGET_SUBNETS"))
     ELSE Goto("construct", local)

ConstructStep ==
  /\ pc = "construct"
  /\ UNCHANGED <<io, parsed>>
  /\ Goto("dataplane",
          [local EXCEPT !.networkConfig = NetworkConfig(local.networkConfigData)])

\* the dataplaneConfig section built into a DataplaneConfig, sizing checked
MutDataplaneStepSized ==
  /\ pc = "dataplane"
  /\ UNCHANGED <<io, parsed>>
  /\ LET dataplaneConfig == Get(local.config, "dataplaneConfig")
         built == DataplaneConfig(dataplaneConfig)
     IN  IF Truthy(dataplaneConfig) /\ TypeOf(dataplaneConfig) = "object"
         THEN IF built.ok
              THEN Goto("deployIntegrationTests",
                        [local EXCEPT !.dataplaneConfig = built.value])
              ELSE Raise(built.error)
         ELSE Goto("deployIntegrationTests", local)

DataplaneStep ==
  /\ pc = "dataplane"
  /\ UNCHANGED <<io, parsed>>
  /\ LET dataplaneConfig == Get(local.config, "dataplaneConfig")
     IN  IF Truthy(dataplaneConfig) /\ TypeOf(dataplaneConfig) = "object"
         THEN Goto("deployIntegrationTests", [local EXCEPT !.dataplaneConfig = dataplaneConfig])
         ELSE Goto("deployIntegrationTests", local)

DeployIntegrationTestsStep ==
  /\ pc = "deployIntegrationTests"
  /\ UNCHANGED <<io, parsed>>
  /\ LET r == validateBooleanField(Get(local.config, "deployIntegrationTests"),
                                   "deployIntegrationTests", FALSE, TRUE)
     IN  IF ~r.ok THEN Raise(r.error)
         ELSE Goto("testImagery", [local EXCEPT !.deployIntegrationTests = r.value])

\* testImageryConfig built from any truthy value, object or not
MutTestImageryStepTruthyOnly ==
  /\ pc = "testImagery"
  /\ UNCHANGED <<io, parsed>>
  /\ LET testImageryConfig == Get(local.config, "testImageryConfig")
     IN  IF local.deployIntegrationTests /\ Truthy(testImageryConfig)
         THEN Goto("testConfig",
                   [local EXCEPT !.testImageryConfig = TestImageryConfig(testImageryConfig)])
         ELSE Goto("testConfig", local)

TestImageryStep ==
  /\ pc = "testImagery"
  /\ UNCHANGED <<io, parsed>>
  /\ LET testImageryConfig == Get(local.config, "testImageryConfig")
     IN  IF /\ local.deployIntegrationTests
            /\ Truthy(testImageryConfig) /\ TypeOf(testImageryConfig) = "object"
         THEN Goto("testConfig",
                   [local EXCEPT !.testImageryConfig = TestImageryConfig(testImageryConfig)])
         ELSE Goto("testConfig", local)

\* testConfig built without looking at deployIntegrationTests
MutTestConfigStepUngated ==
  /\ pc = "testConfig"
  /\ UNCHANGED <<io, parsed>>
  /\ LET testConfig == Get(local.config, "testConfig")
     IN  IF Truthy(testConfig) /\ TypeOf(testConfig) = "object"
         THEN Goto("assemble", [local EXCEPT !.testConfig = TestConfig(testConfig)])
         ELSE Goto("assemble", local)

TestConfigStep ==
  /\ pc = "testConfig"
  /\ UNCHANGED <<io, parsed>>
  /\ LET testConfig == Get(local.config, "testConfig")
     IN  IF /\ local.deployIntegrationTests
            /\ Truthy(testConfig) /\ TypeOf(testConfig) = "object"
         THEN Goto("assemble", [local EXCEPT !.testConfig = TestConfig(testConfig)])
         ELSE Goto("assemble", local)

\* validatedConfig
ValidatedConfig(l) ==
  [projectName |-> l.projectName,
   account |-> [id |-> l.accountId, region |-> l.region,
                prodLike |-> l.prodLike, isAdc |-> l.isAdc],
   networkConfig |-> l.networkConfig,
   dataplaneConfig |-> l.dataplaneConfig,
   deployIntegrationTests |-> l.deployIntegrationTests,
   testImageryConfig |-> l.testImageryConfig,
   testConfig |-> l.testConfig]

\* a log line that also echoes the account id
MutLogLineWithAccount(validatedConfig) ==
  [template |-> "Using environment from deployment.json: projectName=${projectName}, region=${region}",
   args |-> <<validatedConfig.projectName, validatedConfig.account.region,
              validatedConfig.account.id>>]

\* the console.log line
LogLine(validatedConfig) ==
  [template |-> "Using environment from deployment.json: projectName=${projectName}, region=${region}",
   args |-> <<validatedConfig.projectName, validatedConfig.account.region>>]

AssembleStep ==
  /\ pc = "assemble"
  /\ pc' = "done"
  /\ result' = ValidatedConfig(local)
  /\ log' = Append(log, LogLine(ValidatedConfig(local)))
  /\ evaluated' = Append(evaluated, pc)
  /\ UNCHANGED <<file, parsed, local, thrown, failedAt, io, prev, calls, arg, app, nag>>

----------------------------------------------------------------------------
(* The deployment.json files the loader is run on *)

MaxPad == 2

MaxSubnets == 2

MaxCalls == 2

RECURSIVE Spaces(_)
Spaces(n) == IF n = 0 THEN <<>> ELSE <<" ">> \o Spaces(n - 1)

\* str with MaxPad blanks on either side
Pad(str) == Spaces(MaxPad) \o str \o Spaces(MaxPad)

ProjectA == <<"t", "s">>

ProjectB == <<"p", "2">>

AccountA == <<"1", "2", "3", "4", "5", "6", "7", "8", "9", "0", "1", "2">>

AccountB == <<"2", "1", "0", "9", "8", "7", "6", "5", "4", "3", "2", "1">>

AccountShort == <<"1", "2", "3", "4", "5">>

AccountAlpha == <<"1", "2", "3", "4", "5", "6", "7", "8", "9", "0", "1", "x">>

UsWest2 == <<"u", "s", "-", "w", "e", "s", "t", "-", "2">>

UsEast1 == <<"u", "s", "-", "e", "a", "s", "t", "-", "1">>

RegionUnderscore == <<"u", "s", "_", "e", "a", "s", "t", "_", "1">>

RegionOneSegment == <<"u", "s">>

Hex8 == <<"1", "2", "3", "4", "a", "b", "c", "d">>

Hex9 == <<"e", "f", "5", "6", "7", "8", "9", "0", "a">>

Hex8Upper == <<"1", "2", "3", "4", "A", "B", "C", "D">>

TrueText == <<"t", "r", "u", "e">>

FalseText == <<"f", "a", "l", "s", "e">>

\* a slot holding Built is an object assembled from the slots of its fields
Built == [t |-> "built"]

FullSlots ==
  [exists |-> Bool(TRUE), readable |-> Bool(TRUE), wellFormed |-> Bool(TRUE),
   top |-> Built,
   projectName |-> Str(ProjectA),
   account |-> Built,
   id |-> Str(AccountA),
   region |-> Str(UsWest2),
   prodLike |-> Bool(FALSE),
   isAdc |-> Undefined,
   networkConfig |-> Built,
   VPC_ID |-> Str(VpcPrefix \o Hex8),
   TARGET_SUBNETS |-> Arr(<<Str(SubnetPrefix \o Hex8)>>),
   SECURITY_GROUP_ID |-> Str(SgPrefix \o Hex8),
   VPC_NAME |-> Undefined,
   SECURITY_GROUP_NAME |-> Undefined,
   dataplaneConfig |-> Undefined,
   deployIntegrationTests |-> Undefined,
   testImageryConfig |-> Obj([S3_IMAGE_BUCKET_PREFIX |-> Str(Lit("custom-test-imagery"))]),
   testConfig |-> Obj([BUILD_FROM_SOURCE |-> Bool(TRUE)])]

MinimalSlots ==
  [FullSlots EXCEPT !.networkConfig = Undefined, !.testImageryConfig = Undefined,
                    !.testConfig = Undefined]

Bases == {FullSlots, MinimalSlots}

\* a list of well-formed subnet ids
RECURSIVE GoodSubnets(_)
GoodSubnets(n) ==
  IF n = 0 THEN <<>>
  ELSE GoodSubnets(n - 1)
         \o <<Str(SubnetPrefix \o (IF n % 2 = 1 THEN Hex8 ELSE Hex8 \o Hex9))>>

OddSubnets == {Num(1), Str(SubnetPrefix \o Hex8Upper), Str(Pad(SubnetPrefix \o Hex8))}

\* the lists of at most MaxSubnets elements with at most one element that is
\* not a plain well-formed subnet id, and those with no such element at all
SubnetLists ==
  {GoodSubnets(n) : n \in 0..MaxSubnets}
    \cup UNION {{[GoodSubnets(n) EXCEPT ![p] = e] : p \in 1..n, e \in OddSubnets} :
                  n \in 1..MaxSubnets}
    \cup UNION {[1..n -> OddSubnets] : n \in 2..MaxSubnets}

\* the values each slot is varied over
Deviations ==
  [exists |-> {Bool(FALSE)},
   readable |-> {Bool(FALSE)},
   wellFormed |-> {Bool(FALSE)},
   top |-> {Null, Str(ProjectA), Num(0), Arr(<<>>)},
   projectName |-> {Undefined, Null, Num(1), Str(<<>>), Str(Spaces(MaxPad)), Str(Pad(ProjectA)),
                    Str(ProjectB)},
   account |-> {Undefined, Null, Str(ProjectA), Arr(<<>>)},
   id |-> {Undefined, Num(1), Str(AccountShort), Str(AccountAlpha), Str(Pad(AccountA)),
           Str(AccountB)},
   region |-> {Undefined, Num(1), Str(RegionUnderscore), Str(RegionOneSegment),
               Str(Pad(UsWest2)), Str(UsEast1)},
   prodLike |-> {Undefined, Null, Str(TrueText), Num(1), Bool(TRUE)},
   isAdc |-> {Null, Str(TrueText), Num(0), Bool(TRUE), Bool(FALSE)},
   networkConfig |-> {Undefined, Null, Str(ProjectA), Arr(<<>>), Num(0), Bool(TRUE)},
   VPC_ID |-> {Undefined, Null, Num(1), Str(<<>>), Str(VpcPrefix \o Hex8Upper),
               Str(Pad(VpcPrefix \o Hex8)), Str(VpcPrefix \o Hex8 \o Hex9)},
   TARGET_SUBNETS |-> {Undefined, Null, Num(0), Str(SubnetPrefix \o Hex8)}
                       \cup {Arr(list) : list \in SubnetLists},
   SECURITY_GROUP_ID |-> {Undefined, Null, Num(1), Str(SgPrefix \o Hex8Upper),
                          Str(Pad(SgPrefix \o Hex8))},
   VPC_NAME |-> {Null, Str(Lit("custom-vpc"))},
   SECURITY_GROUP_NAME |-> {Null, Str(Lit("custom-sg"))},
   dataplaneConfig |-> {Obj([ECS_TASK_CPU |-> Num(1)]),
                        Obj([ECS_TASK_CPU |-> Null, ECS_TASK_MEMORY |-> Num(200000)]),
                        Obj([ECS_TASK_CPU |-> Num(512), ECS_CONTAINER_PORT |-> Num(9000)]),
                        Str(ProjectA), Num(0), Bool(TRUE)},
   deployIntegrationTests |-> {Null, Bool(TRUE), Bool(FALSE), Str(FalseText), Num(0)},
   testImageryConfig |-> {Undefined, Str(ProjectA), Num(0), Bool(TRUE),
                          Obj([S3_IMAGE_BUCKET_PREFIX |-> Str(Lit("custom-test-imagery"))])},
   testConfig |-> {Undefined, Str(ProjectA), Num(0), Bool(TRUE),
                   Obj([BUILD_FROM_SOURCE |-> Bool(TRUE)])}]

\* a JSON object with the fields that are not undefined
ObjectOf(fields) ==
  Obj([k \in {j \in DOMAIN fields : fields[j].t # "undefined"} |-> fields[k]])

Section(slot, fields) == IF slot.t = "built" THEN ObjectOf(fields) ELSE slot

ContentOf(s) ==
  Section(s.top,
    [projectName |-> s.projectName,
     account |-> Section(s.account, [id |-> s.id, region |-> s.region,
                                     prodLike |-> s.prodLike, isAdc |-> s.isAdc]),
     networkConfig |-> Section(s.networkConfig,
                               [VPC_ID |-> s.VPC_ID, TARGET_SUBNETS |-> s.TARGET_SUBNETS,
                                SECURITY_GROUP_ID |-> s.SECURITY_GROUP_ID,
                                VPC_NAME |-> s.VPC_NAME,
                                SECURITY_GROUP_NAME |-> s.SECURITY_GROUP_NAME]),
     dataplaneConfig |-> s.dataplaneConfig,
     deployIntegrationTests |-> s.deployIntegrationTests,
     testImageryConfig |-> s.testImageryConfig,
     testConfig |-> s.testConfig])

\* deployment.json as the loader finds it: absent, unreadable, malformed or well-formed
FileOf(s) ==
  [path |-> "bin/deployment/deployment.json",
   exists |-> s.exists.v,
   readable |-> s.readable.v,
   ioMessage |-> "EACCES: permission denied",
   text |-> IF s.wellFormed.v
            THEN [wellFormed |-> TRUE, value |-> ContentOf(s)]
            ELSE [wellFormed |-> FALSE, parserMessage |-> "Unexpected token i in JSON"]]

Slots == DOMAIN Deviations

Choices(base, k) == Deviations[k] \cup {base[k]}

----------------------------------------------------------------------------
(* Specifications *)

InitCall ==
  /\ pc = "start"
  /\ parsed = Undefined
  /\ local = InitLocal
  /\ result = None
  /\ thrown = None
  /\ failedAt = "none"
  /\ log = <<>>
  /\ io = <<>>
  /\ evaluated = <<>>
  /\ prev = None
  /\ calls = 1
  /\ arg = None
  /\ app = None
  /\ nag = None

\* one call of the loader on a file that differs from a base in at most two slots
Init ==
  /\ \E base \in Bases, k1 \in Slots, k2 \in Slots :
       \E d1 \in Choices(base, k1), d2 \in Choices(base, k2) :
         file = FileOf([base EXCEPT ![k1] = d1, ![k2] = d2])
  /\ InitCall

\* repeated calls, each on a file that differs from a base in at most one slot
InitCalls ==
  /\ \E base \in Bases, k \in Slots :
       \E d \in Choices(base, k) : file = FileOf([base EXCEPT ![k] = d])
  /\ InitCall

Load ==
  \/ ExistsStep
  \/ ReadStep
  \/ ParseStep
  \/ TopStep
  \/ ProjectNameStep
  \/ AccountStep
  \/ AccountIdStep
  \/ RegionStep
  \/ ProdLikeStep
  \/ IsAdcStep
  \/ NetworkStep
  \/ VpcIdStep
  \/ SubnetsStep
  \/ SubnetLoopStep
  \/ SgIdStep
  \/ CrossStep
  \/ ConstructStep
  \/ DataplaneStep
  \/ DeployIntegrationTestsStep
  \/ TestImageryStep
  \/ TestConfigStep
  \/ AssembleStep

\* what a finished call leaves for comparison with the next one: the raw
\* projectName, account.region and account.id of its file and the line it logged
Summary ==
  [projectName |-> Get(parsed, "projectName"),
   region |-> Get(Get(parsed, "account"), "region"),
   id |-> Get(Get(parsed, "account"), "id"),
   log |-> log]

\* the caller runs the loader again, on a possibly different file
NewCall ==
  /\ pc \in {"done", "failed"}
  /\ calls < MaxCalls
  /\ \E base \in Bases, k \in Slots :
       \E d \in Choices(base, k) : file' = FileOf([base EXCEPT ![k] = d])
  /\ prev' = (IF pc = "done" THEN Summary ELSE None)
  /\ calls' = calls + 1
  /\ pc' = "start"
  /\ parsed' = Undefined
  /\ local' = InitLocal
  /\ result' = None
  /\ thrown' = None
  /\ failedAt' = "none"
  /\ log' = <<>>
  /\ io' = <<>>
  /\ evaluated' = <<>>
  /\ arg' = arg
  /\ UNCHANGED <<app, nag>>

Next == Load

Spec == Init /\ [][Next]_vars

NextCalls == Load \/ NewCall

SpecCalls == InitCalls /\ [][NextCalls]_vars

----------------------------------------------------------------------------
(* The loader called again and again: a first call, a call on any content, *)
(* then calls on the content of the first call                            *)

MaxRepeats == 3

\* what a call gives its caller: a result or an error, and the line logged
CallOutcome == [pc |-> pc, result |-> result, thrown |-> thrown, log |-> log]

\* the first call as the caller remembers it, and whether a call on other
\* content came after it
Remembered ==
  IF prev = None
  THEN [file |-> file, outcome |-> CallOutcome, disturbed |-> FALSE]
  ELSE [prev EXCEPT !.disturbed = prev.disturbed \/ file # prev.file]

\* a next call that finds the locals of the call before it
MutCallAgainKeepsLocal ==
  /\ pc \in {"done", "failed"}
  /\ calls < MaxRepeats
  /\ IF prev = None
     THEN \E base \in Bases, k \in Slots :
            \E d \in Choices(base, k) : file' = FileOf([base EXCEPT ![k] = d])
     ELSE file' = prev.file
  /\ prev' = Remembered
  /\ calls' = calls + 1
  /\ pc' = "start"
  /\ parsed' = Undefined
  /\ local' = local
  /\ result' = None
  /\ thrown' = None
  /\ failedAt' = "none"
  /\ log' = <<>>
  /\ io' = <<>>
  /\ evaluated' = <<>>
  /\ arg' = arg
  /\ UNCHANGED <<app, nag>>

\* the caller runs the loader again: after the first call on any content,
\* after that on the content of the first call
CallAgain ==
  /\ pc \in {"done", "failed"}
  /\ calls < MaxRepeats
  /\ IF prev = None
     THEN \E base \in Bases, k \in Slots :
            \E d \in Choices(base, k) : file' = FileOf([base EXCEPT ![k] = d])
     ELSE file' = prev.file
  /\ prev' = Remembered
  /\ calls' = calls + 1
  /\ pc' = "start"
  /\ parsed' = Undefined
  /\ local' = InitLocal
  /\ result' = None
  /\ thrown' = None
  /\ failedAt' = "none"
  /\ log' = <<>>
  /\ io' = <<>>
  /\ evaluated' = <<>>
  /\ arg' = arg
  /\ UNCHANGED <<app, nag>>

NextRepeat == Load \/ CallAgain

SpecRepeat == InitCalls /\ [][NextRepeat]_vars

----------------------------------------------------------------------------
(* The format validators, each run on the strings validateStringField can *)
(* hand to it: trimmed and not empty                                      *)

MaxAccountLen == 13

MaxSuffix == 18

MaxSegments == 4

DigitChars == <<"1", "2", "3", "4", "5", "6", "7", "8", "9", "0">>

HexChars == <<"1", "a", "2", "b", "3", "c", "4", "d", "5", "e", "6", "f", "7", "8", "9", "0">>

\* the first n characters of chars repeated
RECURSIVE Run(_, _)
Run(chars, n) ==
  IF n = 0 THEN <<>> ELSE Run(chars, n - 1) \o <<chars[((n - 1) % Len(chars)) + 1]>>

\* s with the character at position p replaced, when s has a position p
Sub(s, p, ch) == IF p \in 1..Len(s) THEN [s EXCEPT ![p] = ch] ELSE s

\* a value validateStringField returns for a required field
TrimmedNonEmpty(s) == Trim(s) = s /\ s # <<>>

OddChars == {"x", "A", "F", "g", " ", "-", "_", "\n"}

AccountIdCandidates ==
  {c \in {Sub(Run(DigitChars, n), p, ch) :
            n \in 0..MaxAccountLen, p \in 0..MaxAccountLen, ch \in OddChars} :
     TrimmedNonEmpty(c)}

IdPrefixes == {VpcPrefix, SgPrefix, SubnetPrefix, <<"v", "p", "c">>, <<"S", "G", "-">>, <<>>}

HexIdCandidates ==
  {c \in {prefix \o Sub(Run(HexChars, n), p, ch) :
            prefix \in IdPrefixes, n \in 0..MaxSuffix, p \in 0..MaxSuffix, ch \in OddChars} :
     TrimmedNonEmpty(c)}

RegionSegments ==
  {<<>>, <<"u", "s">>, <<"e", "a", "s", "t">>, <<"i", "s", "o", "b">>, <<"1">>,
   <<"U", "S">>, <<"e", "_", "1">>}

\* segments.join("-")
RECURSIVE Join(_)
Join(segments) ==
  IF Len(segments) = 0 THEN <<>>
  ELSE IF Len(segments) = 1 THEN segments[1]
  ELSE segments[1] \o <<"-">> \o Join(Tail(segments))

RegionCandidates ==
  {c \in {Join(segments) :
            segments \in UNION {[1..n -> RegionSegments] : n \in 1..MaxSegments}} :
     TrimmedNonEmpty(c)}

Validators ==
  {"validateAccountId", "validateRegion", "validateVpcId", "validateSecurityGroupId",
   "validateSubnetId"}

Candidates(validator) ==
  CASE validator = "validateAccountId" -> AccountIdCandidates
    [] validator = "validateRegion" -> RegionCandidates
    [] OTHER -> HexIdCandidates

\* a direct call that returns or throws
Outcome(r) ==
  IF r.ok
  THEN /\ pc' = "done"
       /\ result' = r.value
       /\ evaluated' = Append(evaluated, pc)
       /\ UNCHANGED <<file, parsed, local, thrown, failedAt, log, io, prev, calls, arg,
                      app, nag>>
  ELSE Raise(r.error) /\ UNCHANGED <<io, parsed>>

ValidateAccountIdCall == pc = "validateAccountId" /\ Outcome(validateAccountId(arg))

ValidateRegionCall == pc = "validateRegion" /\ Outcome(validateRegion(arg))

ValidateVpcIdCall == pc = "validateVpcId" /\ Outcome(validateVpcId(arg))

ValidateSecurityGroupIdCall ==
  pc = "validateSecurityGroupId" /\ Outcome(validateSecurityGroupId(arg))

ValidateSubnetIdCall == pc = "validateSubnetId" /\ Outcome(validateSubnetId(arg))

\* no file is involved in a direct call
InitDirect ==
  /\ file = None
  /\ parsed = Undefined
  /\ local = InitLocal
  /\ result = None
  /\ thrown = None
  /\ failedAt = "none"
  /\ log = <<>>
  /\ io = <<>>
  /\ evaluated = <<>>
  /\ prev = None
  /\ calls = 1
  /\ app = None
  /\ nag = None

InitValidators ==
  /\ \E validator \in Validators : pc = validator /\ arg \in Candidates(validator)
  /\ InitDirect

NextValidators ==
  \/ ValidateAccountIdCall
  \/ ValidateRegionCall
  \/ ValidateVpcIdCall
  \/ ValidateSecurityGroupIdCall
  \/ ValidateSubnetIdCall

SpecValidators == InitValidators /\ [][NextValidators]_vars

----------------------------------------------------------------------------
(* The DataplaneConfig constructor, run on partial records *)

MaxDelta == 1

SizingThresholds == {256, 16384, 512, 122880}

\* the numbers at and around each threshold, and zero, a negative and a mid value
SizingNumbers ==
  {Num(t + d) : t \in SizingThresholds, d \in (0 - MaxDelta)..MaxDelta}
    \cup {Num(0), Num(0 - 1), Num(4096)}

\* what a caller can put under a sizing key; None stands for leaving the key out
SizingValues ==
  SizingNumbers \cup {None, Undefined, Null, NaN, Str(<<"1", "0", "2", "4">>), Bool(TRUE)}

\* new DataplaneConfig() and new DataplaneConfig({ ... })
DataplaneInputs ==
  {Undefined}
    \cup {Obj([k \in {j \in {"ECS_TASK_CPU", "ECS_TASK_MEMORY"} :
                        (IF j = "ECS_TASK_CPU" THEN cpu ELSE memory) # None} |->
                 IF k = "ECS_TASK_CPU" THEN cpu ELSE memory]) :
            cpu \in SizingValues, memory \in SizingValues}

DataplaneConfigCall == pc = "DataplaneConfig" /\ Outcome(DataplaneConfig(arg))

InitDataplane ==
  /\ pc = "DataplaneConfig"
  /\ arg \in DataplaneInputs
  /\ InitDirect

NextDataplane == DataplaneConfigCall

SpecDataplane == InitDataplane /\ [][NextDataplane]_vars

----------------------------------------------------------------------------
(* RegionalConfig: the table of regional settings and its lookup *)

\* the private static configs record, keyed by region
RegionalConfigs ==
  LET Entry(segments, endpoint, azs) ==
        <<Join(segments), Obj([s3Endpoint |-> Str(Lit(endpoint)), maxVpcAzs |-> Num(azs)])>>
      us == <<"u", "s">>
      east == <<"e", "a", "s", "t">>
      west == <<"w", "e", "s", "t">>
      gov == <<"g", "o", "v">>
      entries ==
        {Entry(<<us, east, <<"1">>>>, "s3.amazonaws.com", 3),
         Entry(<<us, west, <<"2">>>>, "s3.us-west-2.amazonaws.com", 3),
         Entry(<<us, west, <<"1">>>>, "s3.us-west-1.amazonaws.com", 2),
         Entry(<<<<"e", "u">>, west, <<"1">>>>, "s3.eu-west-1.amazonaws.com", 3),
         Entry(<<<<"a", "p">>, <<"s", "o", "u", "t", "h", "e", "a", "s", "t">>, <<"1">>>>,
               "s3.ap-southeast-1.amazonaws.com", 3),
         Entry(<<us, gov, west, <<"1">>>>, "s3.us-gov-west-1.amazonaws.com", 2),
         Entry(<<us, gov, east, <<"1">>>>, "s3.us-gov-east-1.amazonaws.com", 2),
         Entry(<<us, <<"i", "s", "o", "b">>, east, <<"1">>>>,
               "s3.us-isob-east-1.sc2s.sgov.gov", 2),
         Entry(<<us, <<"i", "s", "o">>, east, <<"1">>>>, "s3.us-iso-east-1.c2s.ic.gov", 2)}
  IN  [region \in {e[1] : e \in entries} |-> (CHOOSE e \in entries : e[1] = region)[2]]

\* configs is an object literal, so configs[key] also finds what every object
\* inherits from Object.prototype: its methods and, under __proto__, the
\* prototype itself
ObjectPrototype ==
  LET constructor == <<"c", "o", "n", "s", "t", "r", "u", "c", "t", "o", "r">>
      toString == <<"t", "o", "S", "t", "r", "i", "n", "g">>
      valueOf == <<"v", "a", "l", "u", "e", "O", "f">>
      proto == <<"_", "_", "p", "r", "o", "t", "o", "_", "_">>
  IN  [key \in {constructor, toString, valueOf, proto} |->
         IF key = proto THEN Obj(EmptyProps) ELSE [t |-> "function", name |-> key]]

\* RegionalConfig.getConfig(region): this.configs[region] || this.configs["us-east-1"]
getConfig(region) ==
  LET found == IF region \in DOMAIN RegionalConfigs THEN RegionalConfigs[region]
               ELSE IF region \in DOMAIN ObjectPrototype THEN ObjectPrototype[region]
               ELSE Undefined
  IN  IF Truthy(found) THEN found ELSE RegionalConfigs[UsEast1]

\* the strings getConfig is called on: well-formed and malformed regions, the
\* regions of the table and the names every object answers to
RegionInputs == RegionCandidates \cup DOMAIN RegionalConfigs \cup DOMAIN ObjectPrototype

GetConfigCall == pc = "getConfig" /\ Outcome(Return(getConfig(arg)))

InitRegional ==
  /\ pc = "getConfig"
  /\ arg \in RegionInputs
  /\ InitDirect

NextRegional == GetConfigCall

SpecRegional == InitRegional /\ [][NextRegional]_vars

----------------------------------------------------------------------------
(* The CDK application (bin/app.ts): the loader runs, then the stacks are   *)
(* constructed one after the other.  A constructor that throws ends the     *)
(* process; a stack is part of the app from its super() call on.            *)

\* loadDeploymentConfig has returned or thrown: an error ends the process before
\* any stack; otherwise the VPC is imported when networkConfig.VPC_ID is set
StartApp ==
  /\ app = None
  /\ pc \in {"done", "failed"}
  /\ app' = [pc |-> IF pc = "failed" THEN "failed" ELSE "network",
             vpc |-> IF pc = "done" /\ Truthy(Get(result.networkConfig, "VPC_ID"))
                     THEN [t |-> "vpc", imported |-> Get(result.networkConfig, "VPC_ID")]
                     ELSE Undefined,
             stacks |-> <<>>,
             deps |-> {},
             config |-> None,
             dataplane |-> None,
             error |-> IF pc = "failed" THEN thrown ELSE None]
  /\ UNCHANGED <<file, pc, parsed, local, result, thrown, failedAt, log, io, evaluated, prev,
                 calls, arg, nag>>

\* new NetworkStack(app, `${projectName}-TileServerNetwork`, ...) with its Network
NewNetworkStack ==
  /\ app # None
  /\ app.pc = "network"
  /\ LET deployment == result
         port == Get(deployment.dataplaneConfig, "ECS_CONTAINER_PORT")
         networkConfig == IF deployment.networkConfig.t \in {"undefined", "null"}
                          THEN NetworkConfig(Undefined)
                          ELSE deployment.networkConfig
         regionConfig == getConfig(deployment.account.region)
         maxAzs == Get(networkConfig, "MAX_AZS")
         vpc == IF Truthy(Get(networkConfig, "VPC_ID"))
                THEN [t |-> "vpc", imported |-> Get(networkConfig, "VPC_ID")]
                ELSE [t |-> "vpc",
                      vpcName |-> Get(networkConfig, "VPC_NAME"),
                      maxAzs |-> IF maxAzs.t \in {"undefined", "null"}
                                 THEN Get(regionConfig, "maxVpcAzs") ELSE maxAzs]
     IN  app' = [app EXCEPT
                   !.pc = "tileServer",
                   !.stacks = Append(@, [kind |-> "Network",
                                         id |-> deployment.projectName
                                                  \o Lit("-TileServerNetwork"),
                                         containerPort |-> IF Truthy(port) THEN port
                                                           ELSE Num(8080),
                                         config |-> networkConfig,
                                         vpc |-> vpc])]
  /\ UNCHANGED <<file, pc, parsed, local, result, thrown, failedAt, log, io, evaluated, prev,
                 calls, arg, nag>>

\* a TileServerStack that hands the raw dataplaneConfig on without building a
\* DataplaneConfig from its sizing
MutNewTileServerStackUnchecked ==
  /\ app # None
  /\ app.pc = "tileServer"
  /\ app' = [app EXCEPT
               !.pc = "dataplane",
               !.stacks = Append(@, [kind |-> "TileServer",
                                     id |-> result.projectName \o Lit("-TileServer"),
                                     terminationProtection |-> result.account.prodLike]),
               !.config = IF Truthy(result.dataplaneConfig)
                          THEN BaseConfig("DataplaneConfig",
                                          Merge(DataplaneConfigDefaults,
                                                OwnProps(result.dataplaneConfig)))
                          ELSE Undefined]
  /\ UNCHANGED <<file, pc, parsed, local, result, thrown, failedAt, log, io, evaluated, prev,
                 calls, arg, nag>>

\* new TileServerStack(app, `${projectName}-TileServer`, ...) up to its
\* dataplaneConfig: super(), then new DataplaneConfig(deployment.dataplaneConfig)
\* when the loader returned one
NewTileServerStack ==
  /\ app # None
  /\ app.pc = "tileServer"
  /\ LET deployment == result
         stack == [kind |-> "TileServer",
                   id |-> deployment.projectName \o Lit("-TileServer"),
                   terminationProtection |-> deployment.account.prodLike]
         dataplaneConfig == IF Truthy(deployment.dataplaneConfig)
                            THEN DataplaneConfig(deployment.dataplaneConfig)
                            ELSE Return(Undefined)
     IN  app' = IF dataplaneConfig.ok
                THEN [app EXCEPT !.pc = "dataplane", !.stacks = Append(@, stack),
                                 !.config = dataplaneConfig.value]
                ELSE [app EXCEPT !.pc = "failed", !.stacks = Append(@, stack),
                                 !.error = dataplaneConfig.error]
  /\ UNCHANGED <<file, pc, parsed, local, result, thrown, failedAt, log, io, evaluated, prev,
                 calls, arg, nag>>

\* Dataplane.initializeConfig: props.config when it is a DataplaneConfig,
\* otherwise new DataplaneConfig(props.config ?? {})
initializeConfig(config) ==
  IF config.t = "object" /\ "class" \in DOMAIN config /\ config.class = "DataplaneConfig"
  THEN Return(config)
  ELSE DataplaneConfig(IF config.t \in {"undefined", "null"} THEN Obj(EmptyProps) ELSE config)

\* new Dataplane(this, "Dataplane", ...), the rest of the TileServerStack
\* constructor: the config first, then the removal policy, the S3 endpoint and
\* the tables, the messaging, the storage and the ECS service
NewDataplane ==
  /\ app # None
  /\ app.pc = "dataplane"
  /\ LET config == initializeConfig(app.config)
     IN  app' = IF ~config.ok
                THEN [app EXCEPT !.pc = "failed", !.error = config.error]
                ELSE [app EXCEPT
                        !.pc = "test",
                        !.dataplane =
                          [config |-> config.value,
                           removalPolicy |-> IF result.account.prodLike THEN "RETAIN"
                                             ELSE "DESTROY",
                           regionalS3Endpoint |->
                             Get(getConfig(result.account.region), "s3Endpoint"),
                           resources |-> <<"DatabaseTables", "Messaging", "Storage",
                                           "EcsService">>]]
  /\ UNCHANGED <<file, pc, parsed, local, result, thrown, failedAt, log, io, evaluated, prev,
                 calls, arg, nag>>

\* a Test stack created whatever deployIntegrationTests holds
MutNewTestStackAlways ==
  /\ app # None
  /\ app.pc = "test"
  /\ app' = [app EXCEPT
               !.pc = "synth",
               !.stacks = Append(@, [kind |-> "Test",
                                     id |-> result.projectName \o Lit("-TileServerTest")]),
               !.deps = @ \cup {<<"TileServer", "Network">>, <<"Test", "TileServer">>}]
  /\ UNCHANGED <<file, pc, parsed, local, result, thrown, failedAt, log, io, evaluated, prev,
                 calls, arg, nag>>

\* the rest of app.ts: tileServerStack.node.addDependency(networkStack), then,
\* if deployment.deployIntegrationTests, new TestStack(app,
\* `${projectName}-TileServerTest`, ...) and testStack.node.addDependency(tileServerStack)
NewTestStack ==
  /\ app # None
  /\ app.pc = "test"
  /\ app' = IF result.deployIntegrationTests
            THEN [app EXCEPT
                    !.pc = "synth",
                    !.stacks = Append(@, [kind |-> "Test",
                                          id |-> result.projectName
                                                   \o Lit("-TileServerTest")]),
                    !.deps = @ \cup {<<"TileServer", "Network">>, <<"Test", "TileServer">>}]
            ELSE [app EXCEPT !.pc = "synth", !.deps = @ \cup {<<"TileServer", "Network">>}]
  /\ UNCHANGED <<file, pc, parsed, local, result, thrown, failedAt, log, io, evaluated, prev,
                 calls, arg, nag>>

NextApp ==
  \/ Load
  \/ StartApp
  \/ NewNetworkStack
  \/ NewTileServerStack
  \/ NewDataplane
  \/ NewTestStack

SpecApp == Init /\ [][NextApp]_vars

----------------------------------------------------------------------------
(* The suppressions report of the test run (test/test-utils.ts).  Jest runs *)
(* each test file with its own instance of the module, in parallel worker   *)
(* processes; the instances share the temporary suppressions file through   *)
(* synchronous reads and writes.  The global teardown runs in the parent    *)
(* process, with an instance of its own, after every test file has ended.   *)
(* A map from stack names to lists of violations is a function.             *)

MaxWorkers == 2

MaxReports == 1

MaxFaults == 1

\* whether a file system operation may fail now: at most MaxFaults fail in a run
MayFail == IF Len(nag.faults) < MaxFaults THEN BOOLEAN ELSE {FALSE}

\* the violations of all the lists of a map
ValuesOf(map) == UNION {{map[name][i] : i \in 1..Len(map[name])} : name \in DOMAIN map}

\* the test run begins: no report yet, every module instance with an empty
\* globalSuppressedViolations; the temporary file is absent or was left by an
\* earlier run
StartRun ==
  /\ nag = None
  /\ pc = "jest"
  /\ \E left \in {None, [name \in {"TestStack"} |-> <<[worker |-> 0, n |-> 1]>>]} :
       nag' = [tmp |-> left,
               workers |-> [w \in 1..MaxWorkers |->
                              [pc |-> "idle", calls |-> 0, global |-> EmptyProps,
                               existingData |-> EmptyProps]],
               recorded |-> {},
               faults |-> <<>>,
               warnings |-> <<>>,
               stdout |-> <<>>,
               report |-> None,
               teardown |-> "pending"]
  /\ UNCHANGED <<file, pc, parsed, local, result, thrown, failedAt, log, io, evaluated, prev,
                 calls, arg, app>>

\* generateNagReport in a test file, up to the read in
\* appendStackSuppressionsToReport: the violations are pushed onto the
\* instance's global map, the temporary file is read (an absent or unreadable
\* file reads as an empty map) and the violations are pushed onto what was read
AppendRead ==
  /\ nag # None
  /\ nag.teardown = "pending"
  /\ \E w \in 1..MaxWorkers, some \in BOOLEAN, readFails \in MayFail :
       LET me == nag.workers[w]
           \* the stack of the test file run by worker w
           stackName == IF w % 2 = 1 THEN "TestStack" ELSE "NetworkStack"
           \* map.has(name) || map.set(name, []); map.get(name).push(...list)
           Push(map, name, list) ==
             [key \in DOMAIN map \cup {name} |->
                (IF key \in DOMAIN map THEN map[key] ELSE <<>>)
                  \o (IF key = name THEN list ELSE <<>>)]
           violations == IF some THEN <<[worker |-> w, n |-> me.calls + 1]>> ELSE <<>>
           failed == nag.tmp # None /\ readFails
           existingData == IF nag.tmp = None \/ failed THEN EmptyProps ELSE nag.tmp
       IN  /\ me.pc = "idle"
           /\ me.calls < MaxReports
           /\ nag' = [nag EXCEPT
                        !.workers[w] = [pc |-> "write",
                                        calls |-> me.calls + 1,
                                        global |-> Push(me.global, stackName, violations),
                                        existingData |->
                                          Push(existingData, stackName, violations)],
                        !.recorded = @ \cup {violations[i] : i \in 1..Len(violations)},
                        !.faults = IF failed THEN Append(@, "read") ELSE @]
  /\ UNCHANGED <<file, pc, parsed, local, result, thrown, failedAt, log, io, evaluated, prev,
                 calls, arg, app>>

\* writeTempSuppressionsFile(existingData) and the rest of generateNagReport:
\* the file is overwritten with what this instance read and extended; a failed
\* write is warned about and otherwise ignored
AppendWrite ==
  /\ nag # None
  /\ \E w \in 1..MaxWorkers, writeFails \in MayFail :
       LET me == nag.workers[w]
       IN  /\ me.pc = "write"
           /\ nag' = [nag EXCEPT
                        !.workers[w] = [me EXCEPT !.pc = "idle", !.existingData = EmptyProps],
                        !.tmp = IF writeFails THEN @ ELSE me.existingData,
                        !.warnings = IF writeFails
                                     THEN Append(@, "Failed to write temporary suppressions file:")
                                     ELSE @,
                        !.faults = IF writeFails THEN Append(@, "write") ELSE @]
  /\ UNCHANGED <<file, pc, parsed, local, result, thrown, failedAt, log, io, evaluated, prev,
                 calls, arg, app>>

\* a teardown that leaves the temporary file in place when there is nothing to report
MutTeardownNoCleanupWhenEmpty ==
  /\ nag # None
  /\ nag.teardown = "pending"
  /\ \A w \in 1..MaxWorkers : nag.workers[w].pc = "idle"
  /\ \E fails \in SUBSET {"read", "report", "unlink"} :
       LET readFailed == nag.tmp # None /\ "read" \in fails
           tempData == IF nag.tmp = None \/ readFailed THEN EmptyProps ELSE nag.tmp
           globalSuppressedViolations == IF DOMAIN tempData # {} THEN tempData ELSE EmptyProps
           allViolations == ValuesOf(globalSuppressedViolations)
           unlinkFailed == nag.tmp # None /\ "unlink" \in fails
           readFault == IF readFailed THEN <<"read">> ELSE <<>>
           unlinkFault == IF unlinkFailed THEN <<"unlink">> ELSE <<>>
       IN  /\ Len(nag.faults) + Cardinality(fails) <= MaxFaults
           /\ IF allViolations = {}
              THEN nag' = [nag EXCEPT
                             !.stdout = Append(@, "No suppressed violations found to report."),
                             !.faults = @ \o readFault,
                             !.teardown = "returned"]
              ELSE IF "report" \in fails
              THEN nag' = [nag EXCEPT !.faults = @ \o readFault \o <<"report">>,
                                      !.teardown = "threw"]
              ELSE nag' = [nag EXCEPT
                             !.report = globalSuppressedViolations,
                             !.stdout = Append(@, "Suppressed violations report written to: ${reportPath}"),
                             !.tmp = IF unlinkFailed THEN @ ELSE None,
                             !.faults = @ \o readFault \o unlinkFault,
                             !.teardown = "returned"]
  /\ UNCHANGED <<file, pc, parsed, local, result, thrown, failedAt, log, io, evaluated, prev,
                 calls, arg, app>>

\* teardown(), that is generateFinalSuppressedViolationsReport(), once every
\* test file has ended: the temporary file is read and, when it holds a stack,
\* replaces the (empty) global map of the teardown's instance; with no
\* violation the file is cleaned up and the call returns; otherwise the report
\* is written, outside any try, and then the file is cleaned up.  The clean-up
\* ignores a failing unlinkSync.
Teardown ==
  /\ nag # None
  /\ nag.teardown = "pending"
  /\ \A w \in 1..MaxWorkers : nag.workers[w].pc = "idle"
  /\ \E fails \in SUBSET {"read", "report", "unlink"} :
       LET readFailed == nag.tmp # None /\ "read" \in fails
           tempData == IF nag.tmp = None \/ readFailed THEN EmptyProps ELSE nag.tmp
           globalSuppressedViolations == IF DOMAIN tempData # {} THEN tempData ELSE EmptyProps
           allViolations == ValuesOf(globalSuppressedViolations)
           unlinkFailed == nag.tmp # None /\ "unlink" \in fails
           readFault == IF readFailed THEN <<"read">> ELSE <<>>
           unlinkFault == IF unlinkFailed THEN <<"unlink">> ELSE <<>>
       IN  /\ Len(nag.faults) + Cardinality(fails) <= MaxFaults
           /\ IF allViolations = {}
              THEN nag' = [nag EXCEPT
                             !.stdout = Append(@, "No suppressed violations found to report."),
                             !.tmp = IF unlinkFailed THEN @ ELSE None,
                             !.faults = @ \o readFault \o unlinkFault,
                             !.teardown = "returned"]
              ELSE IF "report" \in fails
              THEN nag' = [nag EXCEPT !.faults = @ \o readFault \o <<"report">>,
                                      !.teardown = "threw"]
              ELSE nag' = [nag EXCEPT
                             !.report = globalSuppressedViolations,
                             !.stdout = Append(@, "Suppressed violations report written to: ${reportPath}"),
                             !.tmp = IF unlinkFailed THEN @ ELSE None,
                             !.faults = @ \o readFault \o unlinkFault,
                             !.teardown = "returned"]
  /\ UNCHANGED <<file, pc, parsed, local, result, thrown, failedAt, log, io, evaluated, prev,
                 calls, arg, app>>

InitNag ==
  /\ pc = "jest"
  /\ arg = None
  /\ InitDirect

NextNag ==
  \/ StartRun
  \/ AppendRead
  \/ AppendWrite
  \/ Teardown

SpecNag == InitNag /\ [][NextNag]_vars

----------------------------------------------------------------------------
(* The rules of the validation steps, each judged on the parsed content alone *)

Terminal == pc \in {"done", "failed"}

\* the file was read and parsed, so the validation steps ran on its content
Parsed == file.exists /\ file.readable /\ file.text.wellFormed

RawAccount == Get(parsed, "account")

RawNetwork == Get(parsed, "networkConfig")

HasNetwork == Truthy(RawNetwork) /\ TypeOf(RawNetwork) = "object"

StepOrder ==
  <<"top", "projectName", "account", "accountId", "region", "prodLike", "isAdc",
    "vpcId", "subnets", "subnetLoop", "sgId", "cross", "deployIntegrationTests">>

Violated(step) ==
  CASE step = "top" -> ~Truthy(parsed) \/ TypeOf(parsed) # "object"
    [] step = "projectName" ->
         ~validateStringField(Get(parsed, "projectName"), "projectName", TRUE).ok
    [] step = "account" -> ~Truthy(RawAccount) \/ TypeOf(RawAccount) # "object"
    [] step = "accountId" ->
         ~AccountIdField(Get(RawAccount, "id")).ok
    [] step = "region" ->
         ~RegionField(Get(RawAccount, "region")).ok
    [] step = "prodLike" ->
         ~validateBooleanField(Get(RawAccount, "prodLike"), "account.prodLike", TRUE, FALSE).ok
    [] step = "isAdc" ->
         ~validateBooleanField(Get(RawAccount, "isAdc"), "account.isAdc", FALSE, FALSE).ok
    [] step = "vpcId" ->
         /\ HasNetwork
         /\ Get(RawNetwork, "VPC_ID").t # "undefined"
         /\ ~VpcIdField(Get(RawNetwork, "VPC_ID")).ok
    [] step = "subnets" ->
         /\ HasNetwork
         /\ Get(RawNetwork, "TARGET_SUBNETS").t # "undefined"
         /\ ~IsArray(Get(RawNetwork, "TARGET_SUBNETS"))
    [] step = "subnetLoop" ->
         /\ HasNetwork
         /\ IsArray(Get(RawNetwork, "TARGET_SUBNETS"))
         /\ \E j \in 1..Len(Get(RawNetwork, "TARGET_SUBNETS").v) :
              ~SubnetIdField(Get(RawNetwork, "TARGET_SUBNETS").v[j]).ok
    [] step = "sgId" ->
         /\ HasNetwork
         /\ Get(RawNetwork, "SECURITY_GROUP_ID").t # "undefined"
         /\ ~SecurityGroupIdField(Get(RawNetwork, "SECURITY_GROUP_ID")).ok
    [] step = "cross" -> HasNetwork /\ SubnetsMissingForVpc(RawNetwork)
    [] step = "deployIntegrationTests" ->
         ~validateBooleanField(Get(parsed, "deployIntegrationTests"),
                               "deployIntegrationTests", FALSE, TRUE).ok

StepIndex(step) == CHOOSE n \in 1..Len(StepOrder) : StepOrder[n] = step

ViolatedSteps == {n \in 1..Len(StepOrder) : Violated(StepOrder[n])}

NoneViolatedBefore(step) == \A n \in ViolatedSteps : n >= StepIndex(step)

\* the static text or the interpolated field name of the message holds TARGET_SUBNETS
MentionsTargetSubnets(error) ==
  \/ error.template \in
       {"Field 'networkConfig.TARGET_SUBNETS' must be an array",
        "When VPC_ID is provided, TARGET_SUBNETS must also be specified with at least one subnet ID"}
  \/ error.fieldName \in {"networkConfig.TARGET_SUBNETS", "networkConfig.TARGET_SUBNETS[]"}

----------------------------------------------------------------------------
(* Claims *)

\* C1: whenever the load succeeds and the returned networkConfig has VPC_ID,
\* its TARGET_SUBNETS is present and is a list with at least one element.
C1_VpcImpliesSubnets ==
  (pc = "done" /\ Get(result.networkConfig, "VPC_ID").t # "undefined")
    => /\ IsArray(Get(result.networkConfig, "TARGET_SUBNETS"))
       /\ Len(Get(result.networkConfig, "TARGET_SUBNETS").v) >= 1

C1_Witness ==
  /\ pc = "done"
  /\ Get(result.networkConfig, "VPC_ID").t # "undefined"
  /\ Len(Get(result.networkConfig, "TARGET_SUBNETS").v) = 2

\* C2: when deployIntegrationTests is explicitly false and the load succeeds,
\* testImageryConfig and testConfig are both undefined in the result, whatever
\* the file holds under those keys.
C2_GateClosed ==
  (pc = "done" /\ Get(parsed, "deployIntegrationTests") = Bool(FALSE))
    => /\ result.testImageryConfig = Undefined
       /\ result.testConfig = Undefined

C2_Witness ==
  /\ pc = "done"
  /\ Get(parsed, "deployIntegrationTests") = Bool(FALSE)
  /\ Get(parsed, "testImageryConfig").t = "object"
  /\ Get(parsed, "testConfig").t = "object"

Range(seq) == {seq[n] : n \in 1..Len(seq)}

Least(S) == CHOOSE n \in S : \A m \in S : n <= m

\* the validation steps appear in evaluated in the order of StepOrder
InStepOrder(seq) ==
  \A a \in 1..Len(seq), b \in 1..Len(seq) :
    (a < b /\ seq[a] \in Range(StepOrder) /\ seq[b] \in Range(StepOrder))
      => StepIndex(seq[a]) <= StepIndex(seq[b])

\* C3: the validation steps run in the fixed order of StepOrder; a load that
\* succeeds violated no rule, and a load that fails in validation failed at
\* the earliest step whose rule the content violates, that step being the
\* last one evaluated.
C3_FailFastOrder ==
  /\ InStepOrder(evaluated)
  /\ (Parsed /\ pc = "done") => ViolatedSteps = {}
  /\ (Parsed /\ pc = "failed")
       => /\ failedAt \in Range(StepOrder)
          /\ ViolatedSteps # {}
          /\ StepIndex(failedAt) = Least(ViolatedSteps)
          /\ evaluated[Len(evaluated)] = failedAt
          /\ \A n \in 1..Len(evaluated) :
               evaluated[n] \in Range(StepOrder)
                 => StepIndex(evaluated[n]) <= StepIndex(failedAt)

C3_Witness ==
  /\ Parsed
  /\ pc = "failed"
  /\ failedAt = "region"
  /\ Cardinality(ViolatedSteps) = 2

\* the returned configuration holds every field of DeploymentConfig, the
\* required ones validated
Complete(config) ==
  /\ DOMAIN config = {"projectName", "account", "networkConfig", "dataplaneConfig",
                      "deployIntegrationTests", "testImageryConfig", "testConfig"}
  /\ Len(config.projectName) > 0
  /\ AccountIdPattern(config.account.id)
  /\ RegionPattern(config.account.region)
  /\ config.account.prodLike \in BOOLEAN
  /\ config.account.isAdc \in BOOLEAN
  /\ config.deployIntegrationTests \in BOOLEAN

\* C4: a call that returned gave a complete configuration and logged exactly
\* one line; a call that threw logged nothing and returned nothing; nothing is
\* logged or returned before the end of the call; and two successful calls
\* whose files agree on projectName and account.region logged the same line.
C4_OneLineOfNameAndRegion ==
  /\ pc = "done" => (Len(log) = 1 /\ Complete(result) /\ thrown = None)
  /\ pc = "failed" => (log = <<>> /\ result = None /\ thrown # None)
  /\ ~Terminal => (log = <<>> /\ result = None /\ thrown = None)
  /\ (/\ pc = "done"
      /\ prev # None
      /\ prev.projectName = Get(parsed, "projectName")
      /\ prev.region = Get(RawAccount, "region"))
       => log = prev.log

C4_Witness ==
  /\ pc = "done"
  /\ prev # None
  /\ prev.projectName = Get(parsed, "projectName")
  /\ prev.region = Get(RawAccount, "region")
  /\ prev.id # Get(RawAccount, "id")

\* networkConfig is an object that holds VPC_ID
VpcPresent == HasNetwork /\ Get(RawNetwork, "VPC_ID").t # "undefined"

\* TARGET_SUBNETS is absent, not a list, or an empty list
SubnetsUnusable ==
  \/ ~IsArray(Get(RawNetwork, "TARGET_SUBNETS"))
  \/ Len(Get(RawNetwork, "TARGET_SUBNETS").v) = 0

\* the step at which unusable TARGET_SUBNETS are rejected: a present value that
\* is not a list at the list check, an absent or empty one at the cross-field rule
SubnetsStepConcerned ==
  IF Get(RawNetwork, "TARGET_SUBNETS").t # "undefined"
       /\ ~IsArray(Get(RawNetwork, "TARGET_SUBNETS"))
  THEN "subnets"
  ELSE "cross"

\* C5 as stated: whenever VPC_ID is present and TARGET_SUBNETS is absent,
\* empty or not a list, the load fails with a message mentioning TARGET_SUBNETS.
C5_Original ==
  (Terminal /\ Parsed /\ VpcPresent /\ SubnetsUnusable)
    => (pc = "failed" /\ MentionsTargetSubnets(thrown))

\* C5 amended: whenever VPC_ID is present and TARGET_SUBNETS is absent, empty
\* or not a list, the load fails; the error mentions TARGET_SUBNETS whenever no
\* rule of an earlier step is violated, and otherwise the error is that of the
\* earlier step.
C5_Amended ==
  (Terminal /\ Parsed /\ VpcPresent /\ SubnetsUnusable)
    => /\ pc = "failed"
       /\ NoneViolatedBefore(SubnetsStepConcerned)
            => (failedAt = SubnetsStepConcerned /\ MentionsTargetSubnets(thrown))
       /\ ~NoneViolatedBefore(SubnetsStepConcerned)
            => StepIndex(failedAt) < StepIndex(SubnetsStepConcerned)

C5_Witness ==
  /\ Parsed
  /\ VpcPresent
  /\ IsArray(Get(RawNetwork, "TARGET_SUBNETS"))
  /\ pc = "failed"
  /\ failedAt = "cross"
  /\ MentionsTargetSubnets(thrown)

\* the stored string is the trimmed raw string
StoredTrimmed(stored, raw) == stored = Str(Trim(raw.v))

\* C6 as stated: in a successful load every validated string field is held
\* trimmed in the returned configuration: projectName, account.id,
\* account.region, and networkConfig's VPC_ID, SECURITY_GROUP_ID and every
\* element of TARGET_SUBNETS.
C6_StoredTrimmed ==
  pc = "done"
    => /\ result.projectName = Trim(Get(parsed, "projectName").v)
       /\ result.account.id = Trim(Get(RawAccount, "id").v)
       /\ result.account.region = Trim(Get(RawAccount, "region").v)
       /\ HasNetwork =>
            /\ Get(RawNetwork, "VPC_ID").t # "undefined"
                 => StoredTrimmed(Get(result.networkConfig, "VPC_ID"),
                                  Get(RawNetwork, "VPC_ID"))
            /\ Get(RawNetwork, "SECURITY_GROUP_ID").t # "undefined"
                 => StoredTrimmed(Get(result.networkConfig, "SECURITY_GROUP_ID"),
                                  Get(RawNetwork, "SECURITY_GROUP_ID"))
            /\ IsArray(Get(RawNetwork, "TARGET_SUBNETS"))
                 => \A n \in 1..Len(Get(RawNetwork, "TARGET_SUBNETS").v) :
                      StoredTrimmed(Get(result.networkConfig, "TARGET_SUBNETS").v[n],
                                    Get(RawNetwork, "TARGET_SUBNETS").v[n])

MissingFileError ==
  DeploymentConfigError(
    "Missing deployment.json file at ${deploymentPath}. Please create it by copying deployment.json.example",
    "", Lit(file.path), "", NoField)

\* C7: when deployment.json does not exist the call ends, right after the
\* existence check, with the 'Missing deployment.json file' error that holds
\* the expected path; neither readFileSync nor JSON.parse is ever called.
C7_MissingFile ==
  ~file.exists
    => \/ pc = "start" /\ io = <<>>
       \/ /\ pc = "failed"
          /\ failedAt = "start"
          /\ thrown = MissingFileError
          /\ io = <<"existsSync">>

C7_Witness == ~file.exists /\ pc = "failed" /\ thrown = MissingFileError

ReadFailedTemplate == "Failed to read deployment.json: ${error.message}"

InvalidJsonTemplate == "Invalid JSON format in deployment.json: ${error.message}"

\* C8: for an existing file, a read failure ends the call with 'Failed to
\* read deployment.json' wrapping the I/O message, and a syntax failure with
\* 'Invalid JSON format' wrapping the parser message; each error is raised
\* only for its own cause, and no validation step was evaluated before it.
C8_ReadOrParseFailure ==
  /\ (file.exists /\ ~file.readable /\ pc \notin {"start", "read"})
       => /\ pc = "failed"
          /\ thrown.template = ReadFailedTemplate
          /\ thrown.value = Lit(file.ioMessage)
          /\ evaluated = <<"start", "read">>
          /\ io = <<"existsSync", "readFileSync">>
  /\ (file.exists /\ file.readable /\ ~file.text.wellFormed
        /\ pc \notin {"start", "read", "parse"})
       => /\ pc = "failed"
          /\ thrown.template = InvalidJsonTemplate
          /\ thrown.value = Lit(file.text.parserMessage)
          /\ evaluated = <<"start", "read", "parse">>
          /\ io = <<"existsSync", "readFileSync", "JSON.parse">>
  /\ (pc = "failed" /\ thrown.template = ReadFailedTemplate)
       => (file.exists /\ ~file.readable)
  /\ (pc = "failed" /\ thrown.template = InvalidJsonTemplate)
       => (file.exists /\ file.readable /\ ~file.text.wellFormed)

C8_Witness ==
  /\ file.exists
  /\ ~file.readable
  /\ ~file.text.wellFormed
  /\ pc = "failed"
  /\ thrown.template = ReadFailedTemplate

TopTemplate == "deployment.json must contain a valid JSON object"

AccountTemplate == "Missing or invalid account section in deployment.json"

\* C9 as stated: a top-level value that is not an object fails with the
\* top-level structure error, and a top-level object whose account is absent
\* or not an object fails with the account section error.
C9_Original ==
  (Terminal /\ Parsed)
    => /\ Violated("top") => (pc = "failed" /\ thrown.template = TopTemplate)
       /\ (~Violated("top") /\ Violated("account"))
            => (pc = "failed" /\ thrown.template = AccountTemplate)

\* C9 amended: a top-level value that is null or not of type object fails with
\* the top-level structure error; a top-level object with a valid projectName
\* whose account is absent, null or not of type object fails with the account
\* section error; when projectName is invalid as well, the projectName field
\* error is raised instead.
C9_Amended ==
  (Terminal /\ Parsed)
    => /\ Violated("top")
            => (pc = "failed" /\ failedAt = "top" /\ thrown.template = TopTemplate)
       /\ (~Violated("top") /\ ~Violated("projectName") /\ Violated("account"))
            => (pc = "failed" /\ failedAt = "account" /\ thrown.template = AccountTemplate)
       /\ (~Violated("top") /\ Violated("projectName") /\ Violated("account"))
            => (pc = "failed" /\ failedAt = "projectName" /\ thrown.field = "projectName")

C9_Witness ==
  /\ Parsed
  /\ pc = "failed"
  /\ failedAt = "account"
  /\ thrown.template = AccountTemplate
  /\ Get(parsed, "account").t = "null"

MustBeBooleanTemplate == "Field '${fieldName}' must be a boolean, got ${typeof value}"

BooleanFields == {"prodLike", "isAdc", "deployIntegrationTests"}

RawBoolean(f) == IF f = "deployIntegrationTests" THEN Get(parsed, f) ELSE Get(RawAccount, f)

BooleanFieldName(f) == IF f = "deployIntegrationTests" THEN f ELSE "account." \o f

\* C10 as stated: an absent account.prodLike makes the load fail, and any
\* present value of the three boolean fields that is not a JSON boolean makes
\* the load fail with a 'must be a boolean' error.
C10_Original ==
  (Terminal /\ Parsed)
    => /\ Get(RawAccount, "prodLike").t = "undefined" => pc = "failed"
       /\ \A f \in BooleanFields :
            RawBoolean(f).t \notin {"undefined", "boolean"}
              => (pc = "failed" /\ thrown.template = MustBeBooleanTemplate)

\* C10 amended: an absent or null account.prodLike makes the load fail; a
\* present value of the three boolean fields that is neither null nor a JSON
\* boolean makes the load fail, with the field's 'must be a boolean' error
\* whenever no rule of an earlier step is violated; a null account.isAdc or
\* deployIntegrationTests is taken as absent and yields the default.
C10_Amended ==
  (Terminal /\ Parsed)
    => /\ Get(RawAccount, "prodLike").t \in {"undefined", "null"} => pc = "failed"
       /\ \A f \in BooleanFields :
            RawBoolean(f).t \notin {"undefined", "null", "boolean"}
              => /\ pc = "failed"
                 /\ NoneViolatedBefore(f)
                      => /\ failedAt = f
                         /\ thrown.template = MustBeBooleanTemplate
                         /\ thrown.fieldName = BooleanFieldName(f)
                         /\ thrown.got = TypeOf(RawBoolean(f))
       /\ (pc = "done" /\ Get(RawAccount, "isAdc").t = "null")
            => result.account.isAdc = FALSE
       /\ (pc = "done" /\ Get(parsed, "deployIntegrationTests").t = "null")
            => result.deployIntegrationTests = TRUE

C10_Witness ==
  /\ Parsed
  /\ pc = "failed"
  /\ failedAt = "isAdc"
  /\ thrown.template = MustBeBooleanTemplate
  /\ Get(RawAccount, "isAdc").t = "number"
  /\ ~Truthy(Get(RawAccount, "isAdc"))

\* the parsed content holds projectName and an account of id, region and
\* prodLike, each valid, and nothing else
OnlyRequiredFields ==
  /\ Parsed
  /\ parsed.t = "object"
  /\ DOMAIN parsed.v = {"projectName", "account"}
  /\ RawAccount.t = "object"
  /\ DOMAIN RawAccount.v = {"id", "region", "prodLike"}
  /\ ~Violated("projectName")
  /\ ~Violated("accountId")
  /\ ~Violated("region")
  /\ ~Violated("prodLike")

\* C11: a file that holds only a valid projectName and valid account.id,
\* account.region and account.prodLike loads successfully with isAdc false,
\* deployIntegrationTests true and networkConfig, dataplaneConfig,
\* testImageryConfig and testConfig all undefined; and in every successful
\* result an omitted account.isAdc gives false and an omitted
\* deployIntegrationTests gives true.
C11_Defaults ==
  /\ (Terminal /\ OnlyRequiredFields)
       => /\ pc = "done"
          /\ result.account.isAdc = FALSE
          /\ result.deployIntegrationTests = TRUE
          /\ result.networkConfig = Undefined
          /\ result.dataplaneConfig = Undefined
          /\ result.testImageryConfig = Undefined
          /\ result.testConfig = Undefined
  /\ (pc = "done" /\ Get(RawAccount, "isAdc").t = "undefined")
       => result.account.isAdc = FALSE
  /\ (pc = "done" /\ Get(parsed, "deployIntegrationTests").t = "undefined")
       => result.deployIntegrationTests = TRUE

C11_Witness ==
  /\ pc = "done"
  /\ OnlyRequiredFields
  /\ Get(RawAccount, "prodLike") = Bool(TRUE)
  /\ Get(parsed, "projectName") = Str(Pad(ProjectA))

\* the call of the validator named v has ended
Called(v) == Terminal /\ evaluated = <<v>>

AccountIdTemplate == "Invalid AWS account ID format: '${accountId}'. Must be exactly 12 digits."

\* C12: validateAccountId returns its argument when it is exactly 12 ASCII
\* decimal digits, and throws 'Invalid AWS account ID format' quoting the
\* argument for every other length and for every string holding a character
\* that is not a digit.
C12_AccountIdTwelveDigits ==
  Called("validateAccountId")
    => IF Len(arg) = 12 /\ \A i \in 1..Len(arg) : arg[i] \in Digit
       THEN pc = "done" /\ result = arg
       ELSE /\ pc = "failed"
            /\ thrown.template = AccountIdTemplate
            /\ thrown.value = arg

C12_Witness ==
  /\ Called("validateAccountId")
  /\ pc = "failed"
  /\ Len(arg) = 13
  /\ AllIn(arg, Digit)

IdValidators == {"validateVpcId", "validateSecurityGroupId", "validateSubnetId"}

PrefixOf(v) ==
  CASE v = "validateVpcId" -> VpcPrefix
    [] v = "validateSecurityGroupId" -> SgPrefix
    [] v = "validateSubnetId" -> SubnetPrefix

IdTemplateOf(v) ==
  CASE v = "validateVpcId" ->
         "Invalid VPC ID format: '${vpcId}'. Must start with 'vpc-' followed by 8 or 17 hexadecimal characters."
    [] v = "validateSecurityGroupId" ->
         "Invalid security group ID format: '${securityGroupId}'. Must start with 'sg-' followed by 8 or 17 hexadecimal characters."
    [] v = "validateSubnetId" ->
         "Invalid Subnet ID format: '${subnetId}'. Must start with 'subnet-' followed by 8 or 17 hexadecimal characters."

\* s is prefix followed by n characters, each of 0-9a-f
PrefixThenHex(prefix, n, s) ==
  /\ Len(s) = Len(prefix) + n
  /\ \A i \in 1..Len(prefix) : s[i] = prefix[i]
  /\ \A i \in (Len(prefix) + 1)..Len(s) : s[i] \in HexChar

\* C13: each of validateVpcId, validateSecurityGroupId and validateSubnetId
\* returns its argument when it is the validator's prefix followed by exactly
\* 8 or exactly 17 characters of 0-9a-f, and throws its format error quoting
\* the argument for any other suffix length, any other prefix and any
\* uppercase or non-hexadecimal character.
C13_PrefixThenEightOrSeventeenHex ==
  \A v \in IdValidators :
    Called(v)
      => IF PrefixThenHex(PrefixOf(v), 8, arg) \/ PrefixThenHex(PrefixOf(v), 17, arg)
         THEN pc = "done" /\ result = arg
         ELSE /\ pc = "failed"
              /\ thrown.template = IdTemplateOf(v)
              /\ thrown.value = arg

C13_Witness ==
  /\ Called("validateSecurityGroupId")
  /\ pc = "failed"
  /\ PrefixThenHex(SgPrefix, 12, arg)

\* the segments of s between its hyphens: s.split("-")
RECURSIVE Split(_)
Split(s) ==
  IF \A i \in 1..Len(s) : s[i] # "-"
  THEN <<s>>
  ELSE LET h == CHOOSE i \in 1..Len(s) : s[i] = "-" /\ \A j \in 1..(i - 1) : s[j] # "-"
       IN  <<SubSeq(s, 1, h - 1)>> \o Split(SubSeq(s, h + 1, Len(s)))

RegionTemplate ==
  "Invalid AWS region format: '${region}'. Must follow pattern like 'us-east-1', 'eu-west-2', etc."

\* C14: validateRegion returns its argument when it is two or more non-empty
\* segments of lowercase letters and digits joined by single hyphens, and
\* throws 'Invalid AWS region format' quoting the argument otherwise: for a
\* single segment, an underscore, an uppercase letter, or a leading, trailing
\* or doubled hyphen.
C14_RegionSegments ==
  Called("validateRegion")
    => IF /\ Len(Split(arg)) >= 2
          /\ \A n \in 1..Len(Split(arg)) :
               Split(arg)[n] # <<>> /\ AllIn(Split(arg)[n], LowerAlnum)
       THEN pc = "done" /\ result = arg
       ELSE /\ pc = "failed"
            /\ thrown.template = RegionTemplate
            /\ thrown.value = arg

C14_Witness ==
  /\ Called("validateRegion")
  /\ pc = "done"
  /\ arg = Join(<<<<"u", "s">>, <<"i", "s", "o", "b">>, <<"e", "a", "s", "t">>, <<"1">>>>)

\* the value under key after merging the argument over the defaults
MergedSizing(key, default) ==
  IF arg.t = "object" /\ key \in DOMAIN arg.v THEN arg.v[key] ELSE Num(default)

\* value is a number with lo <= value <= hi
Within(value, lo, hi) ==
  /\ value.t = "number"
  /\ ~IsNaN(value)
  /\ lo <= value.v
  /\ value.v <= hi

\* C15 as stated: new DataplaneConfig(config) succeeds if and only if, after
\* merging over the defaults 8192 and 16384, 256 <= ECS_TASK_CPU <= 16384 and
\* 512 <= ECS_TASK_MEMORY <= 122880.
C15_SizingBounds ==
  Called("DataplaneConfig")
    => (pc = "done"
          <=> /\ Within(MergedSizing("ECS_TASK_CPU", 8192), 256, 16384)
              /\ Within(MergedSizing("ECS_TASK_MEMORY", 16384), 512, 122880))

\* the number the validator takes value for: anything but a number counts as 0
Sized(value) == IF value.t = "number" THEN value ELSE Num(0)

\* the line reporting the bound of [lo, hi] that value violates, if it violates
\* one; NaN is below no minimum and above no maximum
ViolationLine(value, lo, hi, tooLow, tooHigh) ==
  IF ~IsNaN(Sized(value)) /\ Sized(value).v < lo THEN <<tooLow>>
  ELSE IF ~IsNaN(Sized(value)) /\ Sized(value).v > hi THEN <<tooHigh>>
  ELSE <<>>

CpuViolation ==
  ViolationLine(MergedSizing("ECS_TASK_CPU", 8192), 256, 16384,
                "ECS_TASK_CPU must be at least 256 (0.25 vCPU)",
                "ECS_TASK_CPU must be at most 16384 (16 vCPU)")

MemoryViolation ==
  ViolationLine(MergedSizing("ECS_TASK_MEMORY", 16384), 512, 122880,
                "ECS_TASK_MEMORY must be at least 512 MiB",
                "ECS_TASK_MEMORY must be at most 122880 MiB (120 GB)")

\* C16: the sizing validator checks ECS_TASK_CPU and ECS_TASK_MEMORY
\* independently; when at least one bound is violated the constructor throws
\* one Error whose message is the line 'Configuration validation failed:'
\* followed by exactly one line per violated field, the ECS_TASK_CPU line
\* before the ECS_TASK_MEMORY line, and when none is violated it throws
\* nothing.
C16_FailCollect ==
  Called("DataplaneConfig")
    => IF CpuViolation \o MemoryViolation # <<>>
       THEN /\ pc = "failed"
            /\ thrown.name = "Error"
            /\ thrown.message
                 = <<"Configuration validation failed:">> \o CpuViolation \o MemoryViolation
       ELSE pc = "done"

C16_Witness ==
  /\ Called("DataplaneConfig")
  /\ pc = "failed"
  /\ thrown.message = <<"Configuration validation failed:",
                        "ECS_TASK_CPU must be at most 16384 (16 vCPU)",
                        "ECS_TASK_MEMORY must be at least 512 MiB">>

RawDataplane == Get(parsed, "dataplaneConfig")

\* C17: a dataplaneConfig object of the file comes back as it is, with exactly
\* its keys and values, and nothing it holds makes the load fail: the load
\* fails only when a rule of the validation steps, none of which reads
\* dataplaneConfig, is violated, and never at the dataplaneConfig step.
C17_DataplaneOpaque ==
  (Terminal /\ Parsed /\ RawDataplane.t = "object")
    => /\ pc = "done" <=> ViolatedSteps = {}
       /\ pc = "done" => result.dataplaneConfig = RawDataplane
       /\ pc = "failed" => failedAt # "dataplane"

C17_Witness ==
  /\ pc = "done"
  /\ result.dataplaneConfig = Obj([ECS_TASK_CPU |-> Null, ECS_TASK_MEMORY |-> Num(200000)])
  /\ ~DataplaneConfig(result.dataplaneConfig).ok

NameKeys == {"VPC_NAME", "SECURITY_GROUP_NAME"}

DefaultName(k) ==
  IF k = "VPC_NAME" THEN Str(Lit("tile-server-vpc")) ELSE Str(Lit("tile-server-security-group"))

\* the load returned a NetworkConfig built from the networkConfig of the file
NetworkBuilt == pc = "done" /\ result.networkConfig # Undefined

\* C18 as stated: in the NetworkConfig built with no argument and in every
\* NetworkConfig a successful load returns, VPC_NAME and SECURITY_GROUP_NAME
\* are neither absent nor null.
C18_Original ==
  /\ \A k \in NameKeys : Get(NetworkConfig(Undefined), k) = DefaultName(k)
  /\ NetworkBuilt
       => \A k \in NameKeys : Get(result.networkConfig, k).t \notin {"undefined", "null"}

\* C18 amended: in the NetworkConfig built with no argument both names hold
\* their defaults; in every NetworkConfig a successful load returns, each name
\* is a key of the object and holds the default when the networkConfig of the
\* file lacks the key and otherwise the value of the file as it is, a null
\* included, since the loader validates neither name.
C18_Amended ==
  /\ \A k \in NameKeys : Get(NetworkConfig(Undefined), k) = DefaultName(k)
  /\ NetworkBuilt
       => \A k \in NameKeys :
            /\ k \in DOMAIN result.networkConfig.v
            /\ result.networkConfig.v[k]
                 = (IF Get(RawNetwork, k).t = "undefined" THEN DefaultName(k)
                    ELSE Get(RawNetwork, k))

C18_Witness ==
  /\ NetworkBuilt
  /\ Get(RawNetwork, "VPC_NAME") = Str(Lit("custom-vpc"))
  /\ Get(result.networkConfig, "VPC_NAME") = Str(Lit("custom-vpc"))
  /\ Get(result.networkConfig, "SECURITY_GROUP_NAME") = Null

\* the steps that validate one field, and the dotted path of that field in
\* deployment.json
FieldSteps ==
  {"projectName", "accountId", "region", "prodLike", "isAdc", "vpcId", "subnets",
   "subnetLoop", "sgId", "cross", "deployIntegrationTests"}

FieldPathOf(step) ==
  CASE step = "projectName" -> "projectName"
    [] step = "accountId" -> "account.id"
    [] step = "region" -> "account.region"
    [] step = "prodLike" -> "account.prodLike"
    [] step = "isAdc" -> "account.isAdc"
    [] step = "vpcId" -> "networkConfig.VPC_ID"
    [] step \in {"subnets", "subnetLoop", "cross"} -> "networkConfig.TARGET_SUBNETS"
    [] step = "sgId" -> "networkConfig.SECURITY_GROUP_ID"
    [] step = "deployIntegrationTests" -> "deployIntegrationTests"

\* path, or path[] for an element of the list at path
PathOrElement(path) == {path, path \o "[]"}

\* the message holds path: interpolated as ${fieldName}, or in its fixed text
PathInMessage(error, path) ==
  \/ error.fieldName \in PathOrElement(path)
  \/ /\ path = "networkConfig.TARGET_SUBNETS"
     /\ error.template = "Field 'networkConfig.TARGET_SUBNETS' must be an array"

\* C19 as stated: every error raised for an invalid field holds the dotted
\* path of that field in deployment.json in its message, and has that path as
\* its field tag.
C19_FieldPath ==
  (pc = "failed" /\ failedAt \in FieldSteps)
    => /\ PathInMessage(thrown, FieldPathOf(failedAt))
       /\ thrown.field \in PathOrElement(FieldPathOf(failedAt))

C29_GetConfigTotal ==
  (pc = "done" /\ evaluated = <<"getConfig">>)
    => IF arg \in DOMAIN RegionalConfigs
       THEN result = RegionalConfigs[arg]
       ELSE result = Obj([s3Endpoint |-> Str(Lit("s3.amazonaws.com")), maxVpcAzs |-> Num(3)])

\* the kinds of the stacks the app holds, in the order of their creation
StackKinds == [i \in 1..Len(app.stacks) |-> app.stacks[i].kind]

HasStack(kind) == \E i \in 1..Len(app.stacks) : app.stacks[i].kind = kind

\* app.ts ran to its end or was ended by an error
AppEnded == app # None /\ app.pc \in {"synth", "failed"}

\* the stacks exist in the order Network, Tile Server, Test
StacksInOrder == \E n \in 0..3 : StackKinds = SubSeq(<<"Network", "TileServer", "Test">>, 1, n)

\* C21 as stated: the stacks are created in the order Network, Tile Server,
\* Test, the Tile Server stack depending on the Network stack and the Test
\* stack on the Tile Server stack; once the app has ended after a successful
\* load, the Test stack exists if and only if deployIntegrationTests is true;
\* no stack exists when the load failed.
C21_Original ==
  app # None
    => /\ StacksInOrder
       /\ pc = "failed" => app.stacks = <<>>
       /\ app.pc = "synth" => <<"TileServer", "Network">> \in app.deps
       /\ HasStack("Test") => <<"Test", "TileServer">> \in app.deps
       /\ (AppEnded /\ pc = "done") => (HasStack("Test") <=> result.deployIntegrationTests)

\* C21 amended: as C21, except that the Test stack exists if and only if
\* deployIntegrationTests is true and the TileServerStack constructor returned;
\* when it throws on the sizing of dataplaneConfig the app ends with the
\* Network stack and the Tile Server stack only and no dependency declared.
C21_Amended ==
  app # None
    => /\ StacksInOrder
       /\ pc = "failed" => (app.stacks = <<>> /\ app.pc = "failed" /\ app.error = thrown)
       /\ app.pc = "synth" => <<"TileServer", "Network">> \in app.deps
       /\ HasStack("Test") => <<"Test", "TileServer">> \in app.deps
       /\ (AppEnded /\ pc = "done")
            => (HasStack("Test") <=> (result.deployIntegrationTests /\ app.pc = "synth"))
       /\ (app.pc = "failed" /\ pc = "done")
            => /\ StackKinds = <<"Network", "TileServer">>
               /\ app.deps = {}
               /\ ~DataplaneConfig(result.dataplaneConfig).ok

\* the load succeeded with deployIntegrationTests true, and the app ended in
\* the TileServerStack constructor without a Test stack
C21_Witness ==
  /\ app # None
  /\ app.pc = "failed"
  /\ pc = "done"
  /\ result.deployIntegrationTests
  /\ ~HasStack("Test")
  /\ Get(result.dataplaneConfig, "ECS_TASK_CPU") = Num(1)

\* the sizing of a merged dataplane configuration is within its bounds
SizingInRange(config) ==
  /\ Within(config["ECS_TASK_CPU"], 256, 16384)
  /\ Within(config["ECS_TASK_MEMORY"], 512, 122880)

\* C28: out-of-range task sizing in deployment.json is never deployed: the
\* config held by the TileServerStack and the config of every Dataplane that
\* exists is a DataplaneConfig whose ECS_TASK_CPU and ECS_TASK_MEMORY are
\* within bounds, and when the sizing of the loaded dataplaneConfig is out of
\* range construction ends with an error in the TileServerStack, with no
\* Dataplane and none of its tables, queues, file systems or ECS service.
C28_SizingNeverDeployed ==
  app # None
    => /\ app.config \notin {None, Undefined}
            => (app.config.class = "DataplaneConfig" /\ SizingInRange(app.config.v))
       /\ app.dataplane # None
            => /\ app.dataplane.config.class = "DataplaneConfig"
               /\ SizingInRange(app.dataplane.config.v)
               /\ app.config # Undefined => app.dataplane.config = app.config
       /\ (/\ pc = "done"
           /\ Truthy(result.dataplaneConfig)
           /\ ~SizingInRange(Merge(DataplaneConfigDefaults, OwnProps(result.dataplaneConfig)))
           /\ app.pc \notin {"network", "tileServer"})
            => /\ app.pc = "failed"
               /\ app.dataplane = None
               /\ StackKinds = <<"Network", "TileServer">>

\* a file whose ECS_TASK_MEMORY is above the maximum loaded, and the
\* TileServerStack constructor threw before any Dataplane
C28_Witness ==
  /\ app # None
  /\ app.pc = "failed"
  /\ pc = "done"
  /\ Get(result.dataplaneConfig, "ECS_TASK_MEMORY") = Num(200000)
  /\ app.dataplane = None

\* the positions of the raw TARGET_SUBNETS whose element is not a string or,
\* trimmed, does not match the subnet shape
BadSubnets ==
  {j \in 1..Len(Get(RawNetwork, "TARGET_SUBNETS").v) :
     ~SubnetIdField(Get(RawNetwork, "TARGET_SUBNETS").v[j]).ok}

FirstBadSubnet == CHOOSE j \in BadSubnets : \A k \in BadSubnets : j <= k

\* the iterations of the subnet loop that were run
SubnetIterations == Len(SelectSeq(evaluated, LAMBDA step : step = "subnetLoop"))

\* C24: when networkConfig.TARGET_SUBNETS is a list, a list with an element
\* that is not a string or does not match the subnet shape never loads; when
\* validation reaches the list, the elements are validated in list order and
\* the load fails at the first such element, with that element's error and
\* without validating the elements after it; in every successful result each
\* element of TARGET_SUBNETS is a string matching the subnet shape after trimming.
C24_SubnetsInOrder ==
  (Terminal /\ Parsed /\ HasNetwork /\ IsArray(Get(RawNetwork, "TARGET_SUBNETS")))
    => /\ BadSubnets # {} => pc = "failed"
       /\ (BadSubnets # {} /\ NoneViolatedBefore("subnetLoop"))
            => /\ failedAt = "subnetLoop"
               /\ thrown = SubnetIdField(Get(RawNetwork, "TARGET_SUBNETS").v[FirstBadSubnet]).error
               /\ SubnetIterations = FirstBadSubnet
       /\ pc = "done"
            => /\ IsArray(Get(result.networkConfig, "TARGET_SUBNETS"))
               /\ \A j \in 1..Len(Get(result.networkConfig, "TARGET_SUBNETS").v) :
                    LET subnetId == Get(result.networkConfig, "TARGET_SUBNETS").v[j]
                    IN  /\ TypeOf(subnetId) = "string"
                        /\ HexIdPattern(SubnetPrefix, Trim(subnetId.v))

\* a list of two elements that both fail, differently, failed at its first
C24_Witness ==
  /\ pc = "failed"
  /\ failedAt = "subnetLoop"
  /\ Get(RawNetwork, "TARGET_SUBNETS").v = <<Num(1), Str(SubnetPrefix \o Hex8Upper)>>
  /\ thrown.got = "number"

\* object is an instance of class with every own key of input at the value of
\* input, every other key of defaults at its default, and no other key
MergeOf(object, class, defaults, input) ==
  /\ object.class = class
  /\ \A k \in DOMAIN OwnProps(input) :
       k \in DOMAIN object.v /\ object.v[k] = OwnProps(input)[k]
  /\ \A k \in DOMAIN defaults \ DOMAIN OwnProps(input) :
       k \in DOMAIN object.v /\ object.v[k] = defaults[k]
  /\ DOMAIN object.v \subseteq DOMAIN defaults \cup DOMAIN OwnProps(input)

Reports(line) == \E i \in 1..Len(thrown.message) : thrown.message[i] = line

\* the lines validateConfig can report, after the heading
SizingLines ==
  {"ECS_TASK_CPU must be at least 256 (0.25 vCPU)",
   "ECS_TASK_CPU must be at most 16384 (16 vCPU)",
   "ECS_TASK_MEMORY must be at least 512 MiB",
   "ECS_TASK_MEMORY must be at most 122880 MiB (120 GB)"}

\* C26: a sizing field whose merged value is not a number (a numeric string,
\* null, undefined, a boolean) is checked as if it were 0: the construction
\* fails and reports that field as below its minimum, never as above its
\* maximum and never with a line about its type.
C26_NonNumberSizedAsZero ==
  (Terminal /\ evaluated = <<"DataplaneConfig">>)
    => /\ TypeOf(MergedSizing("ECS_TASK_CPU", 8192)) # "number"
            => /\ pc = "failed"
               /\ Reports("ECS_TASK_CPU must be at least 256 (0.25 vCPU)")
               /\ ~Reports("ECS_TASK_CPU must be at most 16384 (16 vCPU)")
       /\ TypeOf(MergedSizing("ECS_TASK_MEMORY", 16384)) # "number"
            => /\ pc = "failed"
               /\ Reports("ECS_TASK_MEMORY must be at least 512 MiB")
               /\ ~Reports("ECS_TASK_MEMORY must be at most 122880 MiB (120 GB)")
       /\ pc = "failed"
            => /\ thrown.name = "Error"
               /\ thrown.message[1] = "Configuration validation failed:"
               /\ \A i \in 2..Len(thrown.message) : thrown.message[i] \in SizingLines

\* ECS_TASK_CPU given as the string "1024" next to a boolean ECS_TASK_MEMORY
C26_Witness ==
  /\ pc = "failed"
  /\ evaluated = <<"DataplaneConfig">>
  /\ Get(arg, "ECS_TASK_CPU") = Str(<<"1", "0", "2", "4">>)
  /\ Get(arg, "ECS_TASK_MEMORY") = Bool(TRUE)
  /\ Len(thrown.message) = 3

OptionalSections == {"networkConfig", "dataplaneConfig", "testImageryConfig", "testConfig"}

\* C27: an optional section whose raw value is a string, a number or a boolean
\* is silently ignored: the load succeeds whenever no rule of a validation
\* step is violated, a load that fails fails with the error of a violated
\* step, nothing but the environment line is logged, and the result holds the
\* section as undefined.
C27_NonObjectSectionIgnored ==
  (Terminal /\ Parsed)
    => \A section \in OptionalSections :
         TypeOf(Get(parsed, section)) \in {"string", "number", "boolean"}
           => /\ ViolatedSteps = {} => pc = "done"
              /\ pc = "failed" => StepIndex(failedAt) \in ViolatedSteps
              /\ pc = "done" => (result[section] = Undefined /\ log = <<LogLine(result)>>)

\* a file that gives networkConfig as a string and dataplaneConfig as a
\* boolean loaded, with neither section in the result
C27_Witness ==
  /\ pc = "done"
  /\ RawNetwork = Str(ProjectA)
  /\ Get(parsed, "dataplaneConfig") = Bool(TRUE)
  /\ result.networkConfig = Undefined
  /\ result.dataplaneConfig = Undefined

\* the file system operation named kind failed during the run
Failed(kind) == \E i \in 1..Len(nag.faults) : nag.faults[i] = kind

\* the violations in the data the teardown reported
Reported == IF nag.report = None THEN {} ELSE ValuesOf(nag.report)

\* C22: once generateFinalSuppressedViolationsReport has returned, every
\* violation recorded by any generateNagReport call of any test process, under
\* any interleaving of their reads and writes of the temporary file, is present
\* in the data it reported.
C22_AllConsolidated ==
  (nag # None /\ nag.teardown = "returned") => nag.recorded \subseteq Reported

\* C23: the teardown never propagates a failure to write the report file: it
\* logs a warning and returns normally.
C23_TeardownNeverThrows ==
  nag # None
    => /\ nag.teardown # "threw"
       /\ Failed("report") => (nag.teardown = "returned" /\ Len(nag.warnings) > 0)

\* C30 as stated: after generateFinalSuppressedViolationsReport has returned
\* normally the temporary suppressions file does not exist, whether a report
\* was written or no suppressed violation was found.
C30_Original ==
  (nag # None /\ nag.teardown = "returned") => nag.tmp = None

\* C30 amended: after generateFinalSuppressedViolationsReport has returned
\* normally the temporary suppressions file does not exist, whether a report
\* was written or no suppressed violation was found, unless unlinkSync failed:
\* the failure is ignored, the call still returns normally and the file is
\* left as it was.  A call that throws on writing the report leaves the file too.
C30_Amended ==
  nag # None
    => /\ (nag.teardown = "returned" /\ ~Failed("unlink")) => nag.tmp = None
       /\ (nag.teardown = "returned" /\ Failed("unlink")) => nag.tmp # None
       /\ nag.teardown = "threw" => (nag.tmp # None /\ nag.report = None)

\* the teardown wrote a report of the violations of two test files and
\* removed the temporary file
C30_Witness ==
  /\ nag # None
  /\ nag.teardown = "returned"
  /\ nag.report # None
  /\ Cardinality(nag.recorded) = 2
  /\ nag.tmp = None
  /\ nag.faults = <<>>

====
